---- MODULE Spec2Model ----
(***************************************************************************)
(* Model of the Resmi Gazete bot: ResmiGazeteScraper (scraper.py),         *)
(* GazetteFilter (filter.py) and run_bot (main.py).                        *)
(*                                                                         *)
(* Text is a sequence of characters.  A character is a one-letter string   *)
(* for ASCII and a named string for the non-ASCII letters the code treats  *)
(* specially:                                                              *)
(*   Idot = U+0130, idotless = U+0131, Gbreve/gbreve, Uuml/uuml,           *)
(*   Scedil/scedil, Ouml/ouml, Ccedil/ccedil, Acirc/acirc, Icirc/icirc,    *)
(*   Ucirc/ucirc, Atilde/atilde = U+00C3/U+00E3, Auml/auml = U+00C4/U+00E4,*)
(*   frac14 = U+00BC, deg = U+00B0, plusmn = U+00B1, combdot = U+0307.     *)
(***************************************************************************)
EXTENDS Integers, Sequences, FiniteSets, TLC

\* ---- scraper.py constants ----
\* ResmiGazeteScraper.BASE_URL
BASE_URL == <<"h", "t", "t", "p", "s", ":", "/", "/", "w", "w", "w", ".", "r", "e", "s", "m", "i", "g", "a", "z", "e", "t", "e", ".", "g", "o", "v", ".", "t", "r">>

\* ResmiGazeteScraper.SKIP_TITLES
SKIP_TITLES ==
  << <<"p", "d", "f", " ", "g", "ouml", "r", "uuml", "n", "t", "uuml", "l", "e">>,
     <<"h", "t", "m", " ", "g", "ouml", "r", "uuml", "n", "t", "uuml", "l", "e">>,
     <<"g", "ouml", "r", "uuml", "n", "t", "uuml", "l", "e">>,
     <<"y", "a", "z", "d", "idotless", "r">>,
     <<"a", "n", "a", " ", "s", "a", "y", "f", "a">>,
     <<"i", "l", "e", "t", "i", "scedil", "i", "m">>,
     <<"a", "r", "a", "m", "a">>,
     <<"a", "r", "scedil", "i", "v">>,
     <<"ouml", "n", "c", "e", "k", "i", " ", "s", "a", "y", "idotless">>,
     <<"t", "uuml", "m", " ", "k", "a", "t", "e", "g", "o", "r", "i", "l", "e", "r">>,
     <<"z", "a", "m", "a", "n", " ", "a", "r", "a", "l", "idotless", "gbreve", "idotless">>,
     <<"s", "o", "n", " ", "m", "uuml", "k", "e", "r", "r", "e", "r">>,
     <<"f", "i", "h", "r", "i", "s", "t">> >>

\* ResmiGazeteScraper.CATEGORY_HEADERS
CATEGORY_HEADERS ==
  << <<"Y", "Uuml", "R", "Uuml", "T", "M", "E", " ", "V", "E", " ", "Idot", "D", "A", "R", "E", " ", "B", "Ouml", "L", "Uuml", "M", "Uuml">>,
     <<"Y", "A", "S", "A", "M", "A", " ", "B", "Ouml", "L", "Uuml", "M", "Uuml">>,
     <<"Y", "A", "R", "G", "I", " ", "B", "Ouml", "L", "Uuml", "M", "Uuml">>,
     <<"Idot", "L", "Acirc", "N", " ", "B", "Ouml", "L", "Uuml", "M", "Uuml">>,
     <<"Idot", "L", "A", "N", " ", "B", "Ouml", "L", "Uuml", "M", "Uuml">>,
     <<"M", "Idot", "L", "L", "E", "T", "L", "E", "R", "A", "R", "A", "S", "I", " ", "A", "N", "D", "L", "A", "Scedil", "M", "A", "L", "A", "R">>,
     <<"H", "Acirc", "K", "Idot", "M", "L", "E", "R", " ", "V", "E", " ", "S", "A", "V", "C", "I", "L", "A", "R", " ", "K", "U", "R", "U", "L", "U", " ", "K", "A", "R", "A", "R", "I">>,
     <<"H", "Acirc", "K", "Idot", "M", "L", "E", "R", " ", "V", "E", " ", "S", "A", "V", "C", "I", "L", "A", "R", " ", "K", "U", "R", "U", "L", "U">>,
     <<"H", "A", "K", "I", "M", "L", "E", "R", " ", "V", "E", " ", "S", "A", "V", "C", "I", "L", "A", "R", " ", "K", "U", "R", "U", "L", "U">>,
     <<"C", "U", "M", "H", "U", "R", "B", "A", "Scedil", "K", "A", "N", "L", "I", "Gbreve", "I", " ", "K", "A", "R", "A", "R", "L", "A", "R", "I">>,
     <<"C", "U", "M", "H", "U", "R", "B", "A", "Scedil", "K", "A", "N", "L", "I", "Gbreve", "I">>,
     <<"B", "A", "K", "A", "N", "L", "A", "R", " ", "K", "U", "R", "U", "L", "U", " ", "K", "A", "R", "A", "R", "L", "A", "R", "I">>,
     <<"Y", "Ouml", "N", "E", "T", "M", "E", "L", "Idot", "K", "L", "E", "R">>,
     <<"T", "E", "B", "L", "Idot", "Gbreve", "L", "E", "R">>,
     <<"G", "E", "N", "E", "L", "G", "E", "L", "E", "R">>,
     <<"K", "A", "N", "U", "N", "L", "A", "R">>,
     <<"K", "A", "N", "U", "N", " ", "H", "Uuml", "K", "M", "Uuml", "N", "D", "E", " ", "K", "A", "R", "A", "R", "N", "A", "M", "E">>,
     <<"A", "T", "A", "M", "A", " ", "K", "A", "R", "A", "R", "L", "A", "R", "I">> >>

\* category names returned by _get_category_from_title
CAT_HSK == <<"H", "Acirc", "K", "Idot", "M", "L", "E", "R", " ", "V", "E", " ", "S", "A", "V", "C", "I", "L", "A", "R", " ", "K", "U", "R", "U", "L", "U", " ", "K", "A", "R", "A", "R", "I">>
CAT_YONETMELIK == <<"Y", "Ouml", "N", "E", "T", "M", "E", "L", "Idot", "K", "L", "E", "R">>
CAT_TEBLIG == <<"T", "E", "B", "L", "Idot", "Gbreve", "L", "E", "R">>
CAT_YASAMA == <<"Y", "A", "S", "A", "M", "A", " ", "B", "Ouml", "L", "Uuml", "M", "Uuml">>
CAT_CB == <<"C", "U", "M", "H", "U", "R", "B", "A", "Scedil", "K", "A", "N", "L", "I", "Gbreve", "I", " ", "K", "A", "R", "A", "R", "L", "A", "R", "I">>
CAT_GENELGE == <<"G", "E", "N", "E", "L", "G", "E", "L", "E", "R">>
CAT_ILAN == <<"Idot", "L", "Acirc", "N", " ", "B", "Ouml", "L", "Uuml", "M", "Uuml">>
CAT_DIGER == <<"D", "i", "gbreve", "e", "r">>
CAT_GENEL == <<"G", "e", "n", "e", "l">>

\* keywords tested by _get_category_from_title on the normalized title
KW_HAKIM == <<"H", "A", "K", "I", "M">>
KW_SAVCI == <<"S", "A", "V", "C", "I">>
KW_YONETMELIK == <<"Y", "O", "N", "E", "T", "M", "E", "L", "I", "K">>
KW_OZELLESTIRME == <<"O", "Z", "E", "L", "L", "E", "S", "T", "I", "R", "M", "E">>
KW_TEBLIG == <<"T", "E", "B", "L", "I", "G">>
KW_KANUN == <<"K", "A", "N", "U", "N">>
KW_CUMHURBASKANI == <<"C", "U", "M", "H", "U", "R", "B", "A", "S", "K", "A", "N", "I">>
KW_CUMHURBASKANLIGI == <<"C", "U", "M", "H", "U", "R", "B", "A", "S", "K", "A", "N", "L", "I", "G", "I">>
KW_GENELGE == <<"G", "E", "N", "E", "L", "G", "E">>
KW_ILAN == <<"I", "L", "A", "N">>
KW_IHALE == <<"I", "H", "A", "L", "E">>
KW_YARGI == <<"Y", "A", "R", "G", "I">>
KW_MERKEZ_BANKASI == <<"M", "E", "R", "K", "E", "Z", " ", "B", "A", "N", "K", "A", "S", "I">>
KW_DOVIZ == <<"D", "O", "V", "I", "Z">>

\* literals of fetch_via_proxy and parse_html
KW_resmi == <<"r", "e", "s", "m", "i">>
KW_gazete == <<"g", "a", "z", "e", "t", "e">>
EXT_pdf == <<".", "p", "d", "f">>
EXT_htm == <<".", "h", "t", "m">>
DEFAULT_ASPX == <<"d", "e", "f", "a", "u", "l", "t", ".", "a", "s", "p", "x">>
HTTP_PREFIX == <<"h", "t", "t", "p">>
SLASH == <<"/">>

\* ---- filter.py constants ----
\* GazetteFilter.UNIVERSITY_PATTERN: the alternatives of the regex
UNIVERSITY_ALTS ==
  << <<"uuml", "n", "i", "v", "e", "r", "s", "i", "t", "e">>,
     <<"f", "a", "k", "uuml", "l", "t", "e">>,
     <<"e", "n", "s", "t", "i", "t", "uuml">>,
     <<"y", "uuml", "k", "s", "e", "k", "o", "k", "u", "l">>,
     <<"r", "e", "k", "t", "ouml", "r">>,
     <<"d", "e", "k", "a", "n">>,
     <<"a", "k", "a", "d", "e", "m", "i", "k">>,
     <<"ouml", "gbreve", "r", "e", "t", "i", "m", " ", "uuml", "y", "e", "s", "i">>,
     <<"d", "o", "ccedil", "e", "n", "t">>,
     <<"p", "r", "o", "f", "e", "s", "ouml", "r">> >>

\* GazetteFilter.CENTRAL_BANK_PATTERN: merkez bankası.{0,30}(döviz|kur|efektif|parite)
CB_PREFIX == <<"m", "e", "r", "k", "e", "z", " ", "b", "a", "n", "k", "a", "s", "idotless">>
\* the alternatives of the final group of CENTRAL_BANK_PATTERN
CB_ALTS ==
  << <<"d", "ouml", "v", "i", "z">>,
     <<"k", "u", "r">>,
     <<"e", "f", "e", "k", "t", "i", "f">>,
     <<"p", "a", "r", "i", "t", "e">> >>

\* GazetteFilter.FILTERED_CATEGORIES
FILTERED_CATEGORIES ==
  << <<"Y", "A", "R", "G", "I", " ", "Idot", "L", "Acirc", "N", "L", "A", "R", "I">>,
     <<"Y", "A", "R", "G", "I", "I", "L", "A", "N", "L", "A", "R", "I">>,
     <<"Y", "A", "R", "G", "I", " ", "I", "L", "A", "N", "L", "A", "R", "I">>,
     <<"A", "R", "T", "I", "R", "M", "A", ",", " ", "E", "K", "S", "Idot", "L", "T", "M", "E">>,
     <<"A", "R", "T", "I", "R", "M", "A", " ", "E", "K", "S", "Idot", "L", "T", "M", "E">>,
     <<"A", "R", "T", "I", "R", "M", "A", ",", "E", "K", "S", "Idot", "L", "T", "M", "E">>,
     <<"Ccedil", "E", "Scedil", "Idot", "T", "L", "Idot", " ", "Idot", "L", "Acirc", "N", "L", "A", "R">>,
     <<"Ccedil", "E", "Scedil", "Idot", "T", "L", "Idot", " ", "I", "L", "A", "N", "L", "A", "R">>,
     <<"C", "E", "S", "I", "T", "L", "I", " ", "I", "L", "A", "N", "L", "A", "R">> >>

\* GazetteFilter.APPOINTMENT_PATTERN: the alternatives of the regex
APPOINTMENT_ALTS ==
  << <<"a", "t", "a", "m", "a">>,
     <<"k", "a", "d", "r", "o">>,
     <<"m", "uuml", "n", "h", "a", "l">>,
     <<"p", "e", "r", "s", "o", "n", "e", "l", " ", "a", "l", "idotless", "m", "idotless">>,
     <<"s", "ouml", "z", "l", "e", "scedil", "m", "e", "l", "i", " ", "p", "e", "r", "s", "o", "n", "e", "l">> >>

\* the reason strings returned by should_filter
REASON_ANNOUNCEMENT == <<"Idot", "l", "a", "n", " ", "k", "a", "t", "e", "g", "o", "r", "i", "s", "i", ":", " ">>
REASON_UNIVERSITY == <<"Uuml", "n", "i", "v", "e", "r", "s", "i", "t", "e", "/", "A", "k", "a", "d", "e", "m", "i", "k", " ", "i", "ccedil", "e", "r", "i", "k">>
REASON_CENTRAL_BANK == <<"M", "e", "r", "k", "e", "z", " ", "B", "a", "n", "k", "a", "s", "idotless", " ", "d", "ouml", "v", "i", "z", "/", "k", "u", "r">>
REASON_APPOINTMENT == <<"A", "t", "a", "m", "a", "/", "K", "a", "d", "r", "o", " ", "i", "l", "a", "n", "idotless">>

\* the {0,30} repetition of CENTRAL_BANK_PATTERN
CB_MAX_GAP == 30
\* ---- markup elements: [name, text, href] as BeautifulSoup's find_all yields them ----
\* a recognized section header
N_HeaderYurutme ==
  [name |-> "b", text |-> <<"Y", "Uuml", "R", "Uuml", "T", "M", "E", " ", "V", "E", " ", "Idot", "D", "A", "R", "E", " ", "B", "Ouml", "L", "Uuml", "M", "Uuml">>, href |-> <<>>]
\* a second recognized section header
N_HeaderIlan ==
  [name |-> "u", text |-> <<" ", "Idot", "L", "Acirc", "N", " ", "B", "Ouml", "L", "Uuml", "M", "Uuml", " ">>, href |-> <<>>]
\* a document link, relative href
N_Ozel ==
  [name |-> "a", text |-> <<"Ouml", "z", "e", "l", "l", "e", "scedil", "t", "i", "r", "m", "e", " ", "K", "a", "r", "a", "r", "idotless">>, href |-> <<"e", "/", "1", ".", "p", "d", "f">>]
\* the same document, root-relative href, another title
N_OzelRoot ==
  [name |-> "a", text |-> <<"V", "e", "r", "g", "i", " ", "K", "a", "n", "u", "n", "u", " ", "D", "e", "gbreve", "i", "scedil", "i", "k", "l", "i", "gbreve", "i">>, href |-> <<"/", "e", "/", "1", ".", "p", "d", "f">>]
\* a notice link, htm
N_Yargi ==
  [name |-> "a", text |-> <<" ", "a", " ", "-", " ", "Y", "a", "r", "g", "idotless", " ", "Idot", "l", "acirc", "n", "l", "a", "r", "idotless">>, href |-> <<"/", "i", "/", "4", ".", "h", "t", "m">>]
\* an absolute link
N_Univ ==
  [name |-> "a", text |-> <<"Idot", "s", "t", "a", "n", "b", "u", "l", " ", "Uuml", "n", "i", "v", "e", "r", "s", "i", "t", "e", "s", "i", " ", "Y", "ouml", "n", "e", "t", "m", "e", "l", "i", "gbreve", "i">>, href |-> <<"h", "t", "t", "p", ":", "/", "/", "r", "g", ".", "t", "r", "/", "2", ".", "h", "t", "m">>]
\* a UI link of the stoplist
N_Chrome ==
  [name |-> "a", text |-> <<"P", "D", "F", " ", "G", "ouml", "r", "uuml", "n", "t", "uuml", "l", "e">>, href |-> <<"e", "/", "1", ".", "p", "d", "f">>]
\* a link to a page that is not a document
N_NoExt ==
  [name |-> "a", text |-> <<"M", "e", "r", "k", "e", "z", " ", "B", "a", "n", "k", "a", "s", "idotless", " ", "D", "ouml", "v", "i", "z", " ", "K", "u", "r", "l", "a", "r", "idotless">>, href |-> <<"/", "k", "u", "r", "l", "a", "r">>]

\* a PDF link with a query string, and a page whose name carries both extensions
N_PdfQuery ==
  [name |-> "a", text |-> <<"C", "u", "m", "h", "u", "r", "b", "a", "scedil", "k", "a", "n", "idotless", " ", "K", "a", "r", "a", "r", "idotless">>, href |-> <<"/", "e", "/", "5", ".", "p", "d", "f", "?", "s", "=", "1">>]

N_PdfHtm ==
  [name |-> "a", text |-> <<"G", "e", "n", "e", "l", "g", "e", " ", "2", "0", "2", "6", "/", "3">>, href |-> <<"/", "e", "/", "6", ".", "p", "d", "f", ".", "h", "t", "m">>]

NodePool == { N_HeaderYurutme, N_Ozel, N_OzelRoot, N_Univ, N_Chrome, N_NoExt,
              N_PdfQuery, N_PdfHtm }

\* ---- GazetteItem values the filter is applied to ----
\* spec scenario: notice section, notice title
I_Yargi ==
  [title |-> <<"a", " ", "-", " ", "Y", "a", "r", "g", "idotless", " ", "Idot", "l", "acirc", "n", "l", "a", "r", "idotless">>, category |-> <<"Idot", "L", "Acirc", "N", " ", "B", "Ouml", "L", "Uuml", "M", "Uuml">>,
   link |-> <<"h", "t", "t", "p", ":", "/", "/", "t", "/", "1", ".", "h", "t", "m">>, item_type |-> "htm"]
\* filter.py main(): university title
I_Univ ==
  [title |-> <<"Idot", "s", "t", "a", "n", "b", "u", "l", " ", "Uuml", "n", "i", "v", "e", "r", "s", "i", "t", "e", "s", "i", " ", "Y", "ouml", "n", "e", "t", "m", "e", "l", "i", "gbreve", "i">>, category |-> <<"Y", "Ouml", "N", "E", "T", "M", "E", "L", "Idot", "K", "L", "E", "R">>,
   link |-> <<"h", "t", "t", "p", ":", "/", "/", "t", "/", "2", ".", "p", "d", "f">>, item_type |-> "pdf"]
\* filtered category and university title
I_UnivIhale ==
  [title |-> <<"E", "g", "e", " ", "Uuml", "n", "i", "v", "e", "r", "s", "i", "t", "e", "s", "i", " ", "Idot", "h", "a", "l", "e", "s", "i">>, category |-> <<"A", "R", "T", "I", "R", "M", "A", ",", " ", "E", "K", "S", "Idot", "L", "T", "M", "E">>,
   link |-> <<"h", "t", "t", "p", ":", "/", "/", "t", "/", "7", ".", "p", "d", "f">>, item_type |-> "pdf"]
\* filter.py main(): central bank exchange rates
I_Doviz ==
  [title |-> <<"M", "e", "r", "k", "e", "z", " ", "B", "a", "n", "k", "a", "s", "idotless", " ", "D", "ouml", "v", "i", "z", " ", "K", "u", "r", "l", "a", "r", "idotless">>, category |-> <<"T", "E", "B", "L", "Idot", "Gbreve", "L", "E", "R">>,
   link |-> <<"h", "t", "t", "p", ":", "/", "/", "t", "/", "4", ".", "p", "d", "f">>, item_type |-> "pdf"]
\* appointment title
I_Atama ==
  [title |-> <<"A", "t", "a", "m", "a", " ", "K", "a", "r", "a", "r", "idotless">>, category |-> <<"A", "T", "A", "M", "A", " ", "K", "A", "R", "A", "R", "L", "A", "R", "I">>,
   link |-> <<"h", "t", "t", "p", ":", "/", "/", "t", "/", "8", ".", "p", "d", "f">>, item_type |-> "pdf"]

ItemPool == { I_Yargi, I_Univ, I_UnivIhale, I_Doviz, I_Atama }

\* titles around the central-bank pattern: the bank alone, rates alone, the bank
\* and a rate word more than 30 characters apart
I_BankOnly ==
  [title |-> <<"M", "e", "r", "k", "e", "z", " ", "B", "a", "n", "k", "a", "s", "idotless", " ", "T", "e", "b", "l", "i", "gbreve", "i">>, category |-> <<"T", "E", "B", "L", "Idot", "Gbreve", "L", "E", "R">>,
   link |-> <<"h", "t", "t", "p", ":", "/", "/", "t", "/", "9", ".", "p", "d", "f">>, item_type |-> "pdf"]
I_KurOnly ==
  [title |-> <<"D", "ouml", "v", "i", "z", " ", "K", "u", "r", "l", "a", "r", "idotless", " ", "T", "e", "b", "l", "i", "gbreve", "i">>, category |-> <<"T", "E", "B", "L", "Idot", "Gbreve", "L", "E", "R">>,
   link |-> <<"h", "t", "t", "p", ":", "/", "/", "t", "/", "1", "0", ".", "p", "d", "f">>, item_type |-> "pdf"]
I_BankFarKur ==
  [title |-> <<"M", "e", "r", "k", "e", "z", " ", "B", "a", "n", "k", "a", "s", "idotless", " ", "K", "a", "n", "u", "n", "u", "n", "d", "a", " ", "D", "e", "gbreve", "i", "scedil", "i", "k", "l", "i", "k", " ", "Y", "a", "p", "idotless", "l", "m", "a", "s", "idotless", "n", "a", " ", "D", "a", "i", "r", " ", "K", "u", "r", " ", "K", "a", "r", "a", "r", "idotless">>, category |-> <<"T", "E", "B", "L", "Idot", "Gbreve", "L", "E", "R">>,
   link |-> <<"h", "t", "t", "p", ":", "/", "/", "t", "/", "1", "1", ".", "p", "d", "f">>, item_type |-> "pdf"]

BankPool == { I_Doviz, I_BankOnly, I_KurOnly, I_BankFarKur, I_UnivIhale }

\* ---- response bodies: [text, nodes] ----
\* a 200 response with an empty body
B_Empty ==
  [text |-> <<>>,
   nodes |-> <<  >>]
\* a relay's error page: no source keyword
B_ErrorPage ==
  [text |-> <<"A", "c", "c", "e", "s", "s", " ", "d", "e", "n", "i", "e", "d">>,
   nodes |-> <<  >>]
\* a gazette page
B_Gazette ==
  [text |-> <<"T", ".", "C", ".", " ", "R", "e", "s", "m", "i", " ", "G", "a", "z", "e", "t", "e", " ",
            "4", " ", "Scedil", "u", "b", "a", "t", " ", "2", "0", "2", "6", " ",
            "S", "a", "y", "idotless", " ", ":", " ", "3", "3", "1", "5", "8">>,
   nodes |-> << N_HeaderYurutme, N_Ozel, N_OzelRoot, N_Univ, N_HeaderIlan, N_Yargi >>]
\* a gazette page whose UTF-8 bytes were decoded as latin-1
B_Mojibake ==
  [text |-> <<"R", "E", "S", "M", "I", " ", "G", "A", "Z", "E", "T", "E">>,
   nodes |-> << [name |-> "a", text |-> <<"K", "Atilde", "frac14", "l", "t", "Atilde", "frac14", "r", " ", "K", "u", "r", "u", "l", "u">>, href |-> <<"/", "e", "/", "3", ".", "p", "d", "f">>] >>]
\* a gazette page whose only document is filtered
B_OnlyUniv ==
  [text |-> <<"g", "a", "z", "e", "t", "e">>,
   nodes |-> << N_Chrome, N_Univ >>]
\* a gazette page without document links
B_NoItems ==
  [text |-> <<"R", "e", "s", "m", "i", " ", "G", "a", "z", "e", "t", "e">>,
   nodes |-> << N_HeaderIlan, N_Chrome, N_NoExt >>]

\* a marked section with an unknown keyword, "<![foo bar]]>": html.parser
\* raises on it and BeautifulSoup passes the exception on
N_BadDecl ==
  [name |-> "<![", text |-> <<"f", "o", "o", " ", "b", "a", "r">>, href |-> << >>]

B_Malformed ==
  [text |-> <<"R", "e", "s", "m", "i", " ", "G", "a", "z", "e", "t", "e">>,
   nodes |-> << N_BadDecl, N_Ozel >>]

Bodies == { B_Empty, B_ErrorPage, B_Gazette, B_Mojibake, B_OnlyUniv, B_NoItems,
            B_Malformed }

\* ---- Python str primitives on the modelled alphabet ----

AsciiLower == <<"a","b","c","d","e","f","g","h","i","j","k","l","m",
                "n","o","p","q","r","s","t","u","v","w","x","y","z">>
AsciiUpper == <<"A","B","C","D","E","F","G","H","I","J","K","L","M",
                "N","O","P","Q","R","S","T","U","V","W","X","Y","Z">>

\* pairs <<lower, upper>> of the non-ASCII letters with a one-to-one case mapping
CasePairs == { <<"gbreve","Gbreve">>, <<"uuml","Uuml">>, <<"scedil","Scedil">>,
               <<"ouml","Ouml">>, <<"ccedil","Ccedil">>, <<"acirc","Acirc">>,
               <<"icirc","Icirc">>, <<"ucirc","Ucirc">>, <<"atilde","Atilde">>,
               <<"auml","Auml">> }

\* pairs <<lower, upper>> of all letters with a one-to-one case mapping
Letters == { << AsciiLower[k], AsciiUpper[k] >> : k \in 1..Len(AsciiLower) } \cup CasePairs

LowerLetters == { p[1] : p \in Letters }
UpperLetters == { p[2] : p \in Letters }

IsAsciiLower(c) == \E k \in 1..Len(AsciiLower) : AsciiLower[k] = c
IsAsciiUpper(c) == \E k \in 1..Len(AsciiUpper) : AsciiUpper[k] = c

\* the case mappings as tables
UpperMap == [c \in LowerLetters |-> (CHOOSE p \in Letters : p[1] = c)[2]]
LowerMap == [c \in UpperLetters |-> (CHOOSE p \in Letters : p[2] = c)[1]]

\* str.upper() of one character (U+0131 -> I, U+0130 unchanged)
UpperChar(c) ==
  IF c \in LowerLetters THEN UpperMap[c]
  ELSE IF c = "idotless" THEN "I"
  ELSE c

\* str.lower() of one character; U+0130 lowers to the two characters i, U+0307
LowerChar(c) ==
  IF c \in UpperLetters THEN << LowerMap[c] >>
  ELSE IF c = "Idot" THEN << "i", "combdot" >>
  ELSE << c >>

\* concatenation of a sequence of texts
RECURSIVE Flatten(_)
Flatten(ss) ==
  IF ss = << >> THEN << >>
  ELSE IF Len(ss) = 1 THEN ss[1]
  ELSE LET h == Len(ss) \div 2 IN
         Flatten(SubSeq(ss, 1, h)) \o Flatten(SubSeq(ss, h + 1, Len(ss)))

Upper(s) == [k \in 1..Len(s) |-> UpperChar(s[k])]
Lower(s) == Flatten([k \in 1..Len(s) |-> LowerChar(s[k])])

\* str.isalpha() of one character
IsAlpha(c) == c \in LowerLetters \cup UpperLetters \cup {"Idot", "idotless"}

\* sub in s
Contains(sub, s) ==
  \E k \in 0..(Len(s) - Len(sub)) : SubSeq(s, k + 1, k + Len(sub)) = sub

\* s.startswith(p)
StartsWith(s, p) == Len(p) <= Len(s) /\ SubSeq(s, 1, Len(p)) = p

IsSpace(c) == c \in {" ", "\n", "\t"}

RECURSIVE LStrip(_)
LStrip(s) == IF s # << >> /\ IsSpace(Head(s)) THEN LStrip(Tail(s)) ELSE s

RECURSIVE RStrip(_)
RStrip(s) ==
  IF s # << >> /\ IsSpace(s[Len(s)]) THEN RStrip(SubSeq(s, 1, Len(s) - 1)) ELSE s

\* str.strip()
Strip(s) == RStrip(LStrip(s))

\* ---- re with IGNORECASE on literal alternatives ----

\* case folding used by re.IGNORECASE: simple lower-casing, with i, I, U+0130
\* and U+0131 all equivalent
FoldChar(c) ==
  IF c \in {"i", "I", "Idot", "idotless"} THEN "i"
  ELSE IF c \in UpperLetters THEN LowerMap[c]
  ELSE c

\* the literal lit matches s at offset k (0-based), ignoring case
MatchAt(lit, s, k) ==
  /\ k + Len(lit) <= Len(s)
  /\ \A j \in 1..Len(lit) : FoldChar(s[k + j]) = FoldChar(lit[j])

\* re.compile('a|b|...', re.IGNORECASE).search(s) is not None
SearchAlts(alts, s) ==
  \E a \in 1..Len(alts) : \E k \in 0..Len(s) : MatchAt(alts[a], s, k)

\* ---- scraper.py: pure helpers ----

\* the replacements dict of _normalize_text
ScraperReplace(c) ==
  IF c \in {"Idot", "idotless", "Icirc", "icirc"} THEN "I"
  ELSE IF c \in {"Gbreve", "gbreve"} THEN "G"
  ELSE IF c \in {"Uuml", "uuml", "Ucirc", "ucirc"} THEN "U"
  ELSE IF c \in {"Scedil", "scedil"} THEN "S"
  ELSE IF c \in {"Ouml", "ouml"} THEN "O"
  ELSE IF c \in {"Ccedil", "ccedil"} THEN "C"
  ELSE IF c \in {"Acirc", "acirc"} THEN "A"
  ELSE c

\* a _normalize_text without the upper() of line 156
normalize_text_NoUpper(text) == [k \in 1..Len(text) |-> ScraperReplace(text[k])]

\* ResmiGazeteScraper._normalize_text: upper(), then the replacements
normalize_text(text) == [k \in 1..Len(text) |-> ScraperReplace(UpperChar(text[k]))]

\* ResmiGazeteScraper._should_skip_title
should_skip_title(title) ==
  LET title_lower == Strip(Lower(title)) IN
    \/ Len(title_lower) < 5
    \/ \E k \in 1..Len(SKIP_TITLES) : Contains(SKIP_TITLES[k], title_lower)
    \/ ~ \E k \in 1..Len(title) : IsAlpha(title[k])

\* ResmiGazeteScraper._is_category_header: TRUE when it returns the text,
\* FALSE when it returns None (the function is never called by parse_html)
is_category_header(text0) ==
  LET text == Strip(text0) IN
    /\ ~ (Len(text) < 5 \/ Len(text) > 100)
    /\ \E k \in 1..Len(CATEGORY_HEADERS) :
         Contains(normalize_text(CATEGORY_HEADERS[k]), normalize_text(text))

\* ResmiGazeteScraper._get_category_from_title
get_category_from_title(title) ==
  LET title_upper == normalize_text(title) IN
    IF Contains(KW_HAKIM, title_upper) \/ Contains(KW_SAVCI, title_upper) THEN CAT_HSK
    ELSE IF Contains(KW_YONETMELIK, title_upper) THEN CAT_YONETMELIK
    ELSE IF Contains(KW_OZELLESTIRME, title_upper) THEN CAT_TEBLIG
    ELSE IF Contains(KW_TEBLIG, title_upper) THEN CAT_TEBLIG
    ELSE IF Contains(KW_KANUN, title_upper) THEN CAT_YASAMA
    ELSE IF Contains(KW_CUMHURBASKANI, title_upper)
            \/ Contains(KW_CUMHURBASKANLIGI, title_upper) THEN CAT_CB
    ELSE IF Contains(KW_GENELGE, title_upper) THEN CAT_GENELGE
    ELSE IF Contains(KW_ILAN, title_upper) \/ Contains(KW_IHALE, title_upper) THEN CAT_ILAN
    ELSE IF Contains(KW_YARGI, title_upper) THEN CAT_ILAN
    ELSE IF Contains(KW_MERKEZ_BANKASI, title_upper)
            \/ Contains(KW_DOVIZ, title_upper) THEN CAT_TEBLIG
    ELSE CAT_DIGER

\* parse_html lines 218-221: the link is a document link
is_document_href(href) ==
  LET href_lower == Lower(href) IN
    /\ Contains(EXT_pdf, href_lower) \/ Contains(EXT_htm, href_lower)
    /\ ~ Contains(DEFAULT_ASPX, href_lower)

\* parse_html lines 223-228: build the full URL
resolve_href(href) ==
  IF ~ StartsWith(href, HTTP_PREFIX)
  THEN IF StartsWith(href, SLASH) THEN BASE_URL \o href
       ELSE BASE_URL \o SLASH \o href
  ELSE href

\* an item type read off the end of the href
item_type_of_BySuffix(href) ==
  IF Len(href) >= Len(EXT_pdf)
     /\ SubSeq(Lower(href), Len(href) - Len(EXT_pdf) + 1, Len(href)) = EXT_pdf
  THEN "pdf" ELSE "htm"

\* parse_html line 230
item_type_of(href) == IF Contains(EXT_pdf, Lower(href)) THEN "pdf" ELSE "htm"

\* parse_html line 236: duplicate check against the items emitted so far
is_duplicate(its, href) == \E k \in 1..Len(its) : its[k].link = href

\* a loop body that looks for duplicates of the href as written
parse_element_RawHrefKey(its, elem) ==
  LET title == Strip(elem.text)
      href  == resolve_href(elem.href)
  IN IF elem.name # "a" THEN its
     ELSE IF should_skip_title(title) THEN its
     ELSE IF ~ is_document_href(elem.href) THEN its
     ELSE IF is_duplicate(its, elem.href) THEN its
     ELSE Append(its, [title     |-> title,
                       category  |-> get_category_from_title(title),
                       link      |-> href,
                       item_type |-> item_type_of(elem.href)])

\* parse_html lines 207-242: the effect of one loop iteration on items.
\* elem is [name, text, href]; elem_text is get_text(strip=True).
parse_element(its, elem) ==
  LET title == Strip(elem.text)
      href  == resolve_href(elem.href)
  IN IF elem.name # "a" THEN its
     ELSE IF should_skip_title(title) THEN its
     ELSE IF ~ is_document_href(elem.href) THEN its
     ELSE IF is_duplicate(its, href) THEN its
     ELSE Append(its, [title     |-> title,
                       category  |-> get_category_from_title(title),
                       link      |-> href,
                       item_type |-> item_type_of(elem.href)])

\* ---- filter.py: pure helpers ----

\* the replacements dict of _normalize_turkish (case is preserved)
normalize_turkish_char(c) ==
  IF c \in {"Idot", "Icirc"} THEN "I"
  ELSE IF c \in {"idotless", "icirc"} THEN "i"
  ELSE IF c = "Gbreve" THEN "G" ELSE IF c = "gbreve" THEN "g"
  ELSE IF c \in {"Uuml", "Ucirc"} THEN "U"
  ELSE IF c \in {"uuml", "ucirc"} THEN "u"
  ELSE IF c = "Scedil" THEN "S" ELSE IF c = "scedil" THEN "s"
  ELSE IF c = "Ouml" THEN "O" ELSE IF c = "ouml" THEN "o"
  ELSE IF c = "Ccedil" THEN "C" ELSE IF c = "ccedil" THEN "c"
  ELSE IF c = "Acirc" THEN "A" ELSE IF c = "acirc" THEN "a"
  ELSE c

\* GazetteFilter._normalize_turkish
normalize_turkish(text) == [k \in 1..Len(text) |-> normalize_turkish_char(text[k])]

\* should_filter lines 81-87: the category matches a filtered category
filtered_normalized ==
  [k \in 1..Len(FILTERED_CATEGORIES) |-> normalize_turkish(Upper(FILTERED_CATEGORIES[k]))]

category_matches(category) ==
  LET category_normalized == normalize_turkish(Upper(category)) IN
    \E k \in 1..Len(FILTERED_CATEGORIES) :
      \/ Contains(filtered_normalized[k], category_normalized)
      \/ Contains(category_normalized, filtered_normalized[k])

\* UNIVERSITY_PATTERN.search(title)
university_matches(title) == SearchAlts(UNIVERSITY_ALTS, title)

\* CENTRAL_BANK_PATTERN.search(title): merkez bankası.{0,30}(döviz|kur|efektif|parite)
\* a central-bank rule that fires on the bank's name or on a rate word alone
central_bank_matches_Either(title) ==
  \/ \E k \in 0..Len(title) : MatchAt(CB_PREFIX, title, k)
  \/ SearchAlts(CB_ALTS, title)

central_bank_matches(title) ==
  \E k \in 0..Len(title) :
    /\ MatchAt(CB_PREFIX, title, k)
    /\ \E gap \in 0..CB_MAX_GAP :
         /\ \A j \in 1..gap : k + Len(CB_PREFIX) + j <= Len(title)
                              /\ title[k + Len(CB_PREFIX) + j] # "\n"
         /\ \E a \in 1..Len(CB_ALTS) : MatchAt(CB_ALTS[a], title, k + Len(CB_PREFIX) + gap)

\* APPOINTMENT_PATTERN.search(title)
appointment_matches(title) == SearchAlts(APPOINTMENT_ALTS, title)

\* a should_filter that tests the university pattern before the categories
should_filter_UniversityFirst(cfg, item) ==
  IF cfg.filter_universities /\ university_matches(item.title)
    THEN << TRUE, REASON_UNIVERSITY >>
  ELSE IF cfg.filter_announcements /\ category_matches(item.category)
    THEN << TRUE, REASON_ANNOUNCEMENT \o item.category >>
  ELSE IF cfg.filter_central_bank /\ central_bank_matches(item.title)
    THEN << TRUE, REASON_CENTRAL_BANK >>
  ELSE IF cfg.filter_appointments /\ appointment_matches(item.title)
    THEN << TRUE, REASON_APPOINTMENT >>
  ELSE << FALSE, << >> >>

\* GazetteFilter.should_filter: <<should_filter, reason>>
should_filter(cfg, item) ==
  IF cfg.filter_announcements /\ category_matches(item.category)
    THEN << TRUE, REASON_ANNOUNCEMENT \o item.category >>
  ELSE IF cfg.filter_universities /\ university_matches(item.title)
    THEN << TRUE, REASON_UNIVERSITY >>
  ELSE IF cfg.filter_central_bank /\ central_bank_matches(item.title)
    THEN << TRUE, REASON_CENTRAL_BANK >>
  ELSE IF cfg.filter_appointments /\ appointment_matches(item.title)
    THEN << TRUE, REASON_APPOINTMENT >>
  ELSE << FALSE, << >> >>

\* a count that starts a known reason again instead of adding to it
count_reason_Reset(reasons, reason) ==
  [r \in DOMAIN reasons \cup {reason} |-> IF r = reason THEN 1 ELSE reasons[r]]

\* filter_items lines 138-140: count the reason
count_reason(reasons, reason) ==
  IF reason \in DOMAIN reasons
  THEN [reasons EXCEPT ![reason] = @ + 1]
  ELSE [r \in DOMAIN reasons \cup {reason} |-> IF r = reason THEN 1 ELSE reasons[r]]

\* run_bot lines 72-77: the configuration the bot constructs the filter with
DefaultConfig == [filter_universities  |-> TRUE, filter_announcements |-> TRUE,
                  filter_central_bank  |-> TRUE, filter_appointments  |-> FALSE]

\* ---- scraper.py: fetching ----

\* the raw content as one text: the free text, then every element as
\* <href>text (the angle brackets stand for the markup between the texts)
NodesText(ns) ==
  Flatten([k \in 1..Len(ns) |-> << "<" >> \o ns[k].href \o << ">" >> \o ns[k].text])

RawText(body) == body.text \o NodesText(body.nodes)

\* the body is the empty string
IsEmptyBody(body) == body.text = << >> /\ body.nodes = << >>

\* characters str.encode('latin-1') accepts besides ASCII
Latin1High == {"Uuml", "uuml", "Ouml", "ouml", "Ccedil", "ccedil", "Acirc", "acirc",
               "Icirc", "icirc", "Ucirc", "ucirc", "Atilde", "atilde", "Auml", "auml",
               "frac14", "deg", "plusmn"}
NonLatin1 == {"Idot", "idotless", "Gbreve", "gbreve", "Scedil", "scedil", "combdot", "other"}

\* latin-1 bytes that lead a two-byte UTF-8 sequence (C2..DF), that lead a
\* three-byte sequence (E1..EC, EE, EF), and continuation bytes (80..BF)
Utf8Lead2 == {"Acirc", "Atilde", "Auml", "Ccedil", "Icirc", "Ouml", "Ucirc", "Uuml"}
Utf8Lead3 == {"acirc", "atilde", "auml", "ccedil", "icirc"}
Utf8Cont  == {"frac14", "deg", "plusmn"}

\* the character a two-byte sequence decodes to; "other" stands for every
\* character outside the modelled alphabet
Utf8Pair(lead, cont) ==
  IF lead = "Atilde" /\ cont = "frac14" THEN "uuml"
  ELSE IF lead = "Auml" /\ cont = "deg" THEN "Idot"
  ELSE IF lead = "Auml" /\ cont = "plusmn" THEN "idotless"
  ELSE IF lead = "Acirc" THEN cont
  ELSE "other"

\* s.encode('latin-1').decode('utf-8') raises (the markup between two texts
\* is ASCII, so the content is invalid exactly when one of its texts is)
RECURSIVE Utf8Invalid(_)
Utf8Invalid(s) ==
  IF s = << >> THEN FALSE
  ELSE IF Head(s) \in NonLatin1 THEN TRUE
  ELSE IF Head(s) \in Utf8Lead2
    THEN Len(s) < 2 \/ s[2] \notin Utf8Cont \/ Utf8Invalid(SubSeq(s, 3, Len(s)))
  ELSE IF Head(s) \in Utf8Lead3
    THEN Len(s) < 3 \/ s[2] \notin Utf8Cont \/ s[3] \notin Utf8Cont
         \/ Utf8Invalid(SubSeq(s, 4, Len(s)))
  ELSE IF Head(s) \in Latin1High THEN TRUE
  ELSE Utf8Invalid(Tail(s))

\* s.encode('latin-1').decode('utf-8') when it does not raise
RECURSIVE Utf8Decode(_)
Utf8Decode(s) ==
  IF s = << >> THEN << >>
  ELSE IF Head(s) \in Utf8Lead2 THEN << Utf8Pair(s[1], s[2]) >> \o Utf8Decode(SubSeq(s, 3, Len(s)))
  ELSE IF Head(s) \in Utf8Lead3 THEN << "other" >> \o Utf8Decode(SubSeq(s, 4, Len(s)))
  ELSE << Head(s) >> \o Utf8Decode(Tail(s))

\* fetch_via_proxy lines 99-104: the encoding repair
fix_encoding(body) ==
  LET raw == RawText(body) IN
    IF /\ \E k \in 1..Len(raw) : raw[k] \in {"Atilde", "Auml"}
       /\ ~ Utf8Invalid(body.text)
       /\ \A k \in 1..Len(body.nodes) :
            ~ Utf8Invalid(body.nodes[k].text) /\ ~ Utf8Invalid(body.nodes[k].href)
    THEN [text  |-> Utf8Decode(body.text),
          nodes |-> [k \in 1..Len(body.nodes) |->
                       [name |-> body.nodes[k].name,
                        text |-> Utf8Decode(body.nodes[k].text),
                        href |-> Utf8Decode(body.nodes[k].href)]]]
    ELSE body

\* fetch_via_proxy line 106: the content check of a relay response
has_keyword(body) ==
  LET lowered == Lower(RawText(body)) IN
    Contains(KW_resmi, lowered) \/ Contains(KW_gazete, lowered)

\* A response of session.get followed by raise_for_status: "timeout" is
\* requests.exceptions.Timeout, "error" any other RequestException
\* (connection error, HTTP error status), "ok" a success status with a body.
Responses ==
  { [status |-> "timeout", body |-> B_Empty], [status |-> "error", body |-> B_Empty] }
  \cup { [status |-> "ok", body |-> b] : b \in Bodies }

\* fetch_direct: the returned value, << >> for None and <<body>> for a text
fetch_direct(r) == IF r.status = "ok" THEN << r.body >> ELSE << >>

\* a relay attempt that returns any body of a success response
proxy_attempt_NoCheck(r) ==
  IF r.status = "ok" THEN << fix_encoding(r.body) >> ELSE << >>

\* fetch_via_proxy lines 92-115: what one relay attempt yields, << >> when
\* the loop goes on to the next relay
proxy_attempt(r) ==
  IF r.status = "ok" /\ has_keyword(fix_encoding(r.body))
  THEN << fix_encoding(r.body) >>
  ELSE << >>

\* a scrape that asks the relays whatever the direct connection returned
not_content_Always(c) == TRUE

\* Python's "not content" for an Optional[str]
not_content(c) == c = << >> \/ IsEmptyBody(c[1])

\* a relay loop that stops one relay early
NumProxies_OneShort == 2

\* len(PROXY_SERVICES)
NumProxies == 3

\* random.uniform(1, 2), in whole seconds
SLEEP_MIN == 1
SLEEP_MAX == 2

\* ---- bounds of the model ----

\* longest item list given to filter_items on its own
MaxItems == 3
\* longest list of central-bank titles given to filter_items
MaxBankItems == 2
\* longest text of letters given to the normalizers
MaxTextLen == 2
\* longest element list given to parse_html on its own
MaxNodes == 3
\* last day the clock reaches between two parse_html calls
MaxDay == 2

SeqsUpTo(S, n) == UNION { [1..k -> S] : k \in 0..n }

Configs == [filter_universities : BOOLEAN, filter_announcements : BOOLEAN,
            filter_central_bank : BOOLEAN, filter_appointments : BOOLEAN]

\* ---- state ----

VARIABLES
  pc,             \* position of the run: start, fetch_direct, fetch_proxy, parse,
                  \*   parsed, filter, filtered, send, returned, exited
  to_email,       \* run_bot argument ("" when absent)
  TO_EMAIL,       \* environment variable ("" when absent)
  dry_run,        \* run_bot argument
  attempts,       \* endpoints contacted so far: [ep, response, returned], ep 0 = direct
  delays,         \* the time.sleep calls made so far, in seconds
  proxy_i,        \* loop index of fetch_via_proxy (1-based)
  content,        \* scrape's local: << >> is None, <<body>> a text
  scrape_error,   \* scrape raised "Hicbir yontemle icerik alinamadi"
  all_elements,   \* parse_html's element list
  elem_i,         \* loop index of parse_html (1-based)
  items,          \* parse_html's local
  gazette_data,   \* << >> or <<GazetteData>>
  parse_error,    \* BeautifulSoup raised inside parse_html
  date_str,       \* parse_html's locals
  issue_number,
  now,            \* the local date datetime.now() gives: day of November 2026
  first_parse,    \* the GazetteData of an earlier parse_html call on content
  norm_in,        \* a pair of texts given to the normalizers
  scraper_out,    \* _normalize_text applied once, twice to both texts
  filter_out,     \* _normalize_turkish applied once, twice to both texts
  category_out,   \* _normalize_turkish(text.upper()) of both texts
  cfg,            \* the GazetteFilter's four options
  filter_input,   \* argument of filter_items
  item_i,         \* loop index of filter_items (1-based)
  kept,           \* filter_items' locals
  filtered,
  filter_reasons,
  filter_result,  \* << >> or <<FilterResult>>
  senders,        \* number of EmailSender constructions
  send_calls,     \* number of EmailSender.send calls
  api_sends,      \* number of SendGrid requests
  result,         \* run_bot's return value: "none", "True", "False"
  exit_code       \* -1 until sys.exit

vars == << pc, to_email, TO_EMAIL, dry_run, attempts, delays, proxy_i,
           content, scrape_error, all_elements, elem_i, items, gazette_data, parse_error, date_str,
           issue_number, now, first_parse, norm_in, scraper_out, filter_out, category_out, cfg,
           filter_input, item_i, kept, filtered, filter_reasons, filter_result,
           senders, send_calls, api_sends, result, exit_code >>

inputVars   == << to_email, TO_EMAIL, dry_run >>
fetchVars   == << attempts, delays, proxy_i, content, scrape_error >>
parseVars   == << all_elements, elem_i, items, gazette_data, parse_error, date_str,
                  issue_number >>
reparseVars == << now, first_parse >>
normVars    == << norm_in, scraper_out, filter_out, category_out >>
filterVars  == << cfg, filter_input, item_i, kept, filtered, filter_reasons, filter_result >>
sendVars    == << senders, send_calls, api_sends >>
outcomeVars == << result, exit_code >>

EmptyReasons == [r \in {} |-> 0]

\* the parts of the state no operation has touched yet
FetchIdle  == /\ attempts = << >> /\ delays = << >> /\ proxy_i = 1
              /\ content = << >> /\ scrape_error = FALSE
ParseIdle  == /\ all_elements = << >> /\ elem_i = 1 /\ items = << >>
              /\ gazette_data = << >> /\ parse_error = FALSE
              /\ date_str = << >> /\ issue_number = << >>
ReparseIdle == now = 1 /\ first_parse = << >>
NormIdle   == /\ norm_in = << << >>, << >> >> /\ scraper_out = << >>
              /\ filter_out = << >> /\ category_out = << >>
FilterIdle == /\ cfg = DefaultConfig /\ filter_input = << >> /\ item_i = 1
              /\ kept = << >> /\ filtered = << >> /\ filter_reasons = EmptyReasons
              /\ filter_result = << >>
SendIdle   == senders = 0 /\ send_calls = 0 /\ api_sends = 0
NoOutcome  == result = "none" /\ exit_code = -1

\* main(): the process is about to call run_bot
Init ==
  /\ pc = "start"
  /\ to_email \in {"", "to@x"}
  /\ TO_EMAIL \in {"", "env@x"}
  /\ dry_run \in BOOLEAN
  /\ FetchIdle /\ ParseIdle /\ FilterIdle /\ SendIdle /\ NoOutcome /\ ReparseIdle /\ NormIdle

\* run_bot line 42
recipient == IF to_email # "" THEN to_email ELSE TO_EMAIL

\* run_bot returns v
Return(v) == pc' = "returned" /\ result' = v /\ UNCHANGED exit_code

\* a run_bot that never asks for a recipient
RunBotStart_NoRecipientCheck ==
  /\ pc = "start"
  /\ pc' = "fetch_direct" /\ UNCHANGED outcomeVars
  /\ UNCHANGED << inputVars, reparseVars, normVars, fetchVars, parseVars, filterVars, sendVars >>

\* ---- run_bot, lines 39-46 ----
RunBotStart ==
  /\ pc = "start"
  /\ IF recipient = "" /\ ~ dry_run
     THEN Return("False")
     ELSE pc' = "fetch_direct" /\ UNCHANGED outcomeVars
  /\ UNCHANGED << inputVars, reparseVars, normVars, fetchVars, parseVars, filterVars, sendVars >>

\* ---- parse_html lines 182-195: date and issue number ----

\* soup.get_text(): the text outside the elements, then the elements' texts
get_text(body) == body.text \o Flatten([k \in 1..Len(body.nodes) |-> body.nodes[k].text])

IsDigit(c) == c \in {"0", "1", "2", "3", "4", "5", "6", "7", "8", "9"}

\* the number of whitespace characters, of digits, of s from offset k (0-based) on
SpaceRun(s, k) ==
  CHOOSE n \in 0..(Len(s) - k) :
    /\ \A j \in 1..n : IsSpace(s[k + j])
    /\ (k + n = Len(s) \/ ~ IsSpace(s[k + n + 1]))

DigitRun(s, k) ==
  CHOOSE n \in 0..(Len(s) - k) :
    /\ \A j \in 1..n : IsDigit(s[k + j])
    /\ (k + n = Len(s) \/ ~ IsDigit(s[k + n + 1]))

MONTHS ==
  << <<"O", "c", "a", "k">>,
     <<"Scedil", "u", "b", "a", "t">>,
     <<"M", "a", "r", "t">>,
     <<"N", "i", "s", "a", "n">>,
     <<"M", "a", "y", "idotless", "s">>,
     <<"H", "a", "z", "i", "r", "a", "n">>,
     <<"T", "e", "m", "m", "u", "z">>,
     <<"A", "gbreve", "u", "s", "t", "o", "s">>,
     <<"E", "y", "l", "uuml", "l">>,
     <<"E", "k", "i", "m">>,
     <<"K", "a", "s", "idotless", "m">>,
     <<"A", "r", "a", "l", "idotless", "k">> >>

\* r'(\d{1,2})\s+(Ocak|...|Aralık)\s+(\d{4})' with IGNORECASE matched at offset k:
\* the offset where the match ends, -1 without a match.  One or two digits that
\* a digit does not follow on the left of the white space, four digits on the right.
DateEnd(s, k) ==
  LET d  == IF k <= Len(s) THEN DigitRun(s, k) ELSE 0
      nd == IF d >= 2 THEN 2 ELSE d
      w1 == SpaceRun(s, k + nd)
      a  == k + nd + w1
      ms == { m \in 1..Len(MONTHS) : MatchAt(MONTHS[m], s, a) }
  IN IF nd = 0 \/ w1 = 0 \/ ms = {} THEN -1
     ELSE LET b  == a + Len(MONTHS[CHOOSE m \in ms : TRUE])
              w2 == SpaceRun(s, b)
          IN IF w2 >= 1 /\ DigitRun(s, b + w2) >= 4 THEN b + w2 + 4 ELSE -1

\* re.search of the date pattern: group(0) of the leftmost match, << >> for None
date_search(s) ==
  LET ks == { k \in 0..Len(s) : DateEnd(s, k) # -1 }
  IN IF ks = {} THEN << >>
     ELSE LET k == CHOOSE x \in ks : \A y \in ks : x <= y
          IN SubSeq(s, k + 1, DateEnd(s, k))

\* datetime.now().strftime('%d %B %Y') on day n of November 2026
NowText(n) ==
  << "0", <<"1", "2", "3", "4", "5", "6", "7", "8", "9">>[n] >>
    \o <<" ", "N", "o", "v", "e", "m", "b", "e", "r", " ", "2", "0", "2", "6">>

\* lines 183-191
extract_date(text, n) == IF date_search(text) # << >> THEN date_search(text) ELSE NowText(n)

ISSUE_WORD == <<"S", "a", "y", "idotless">>
ISSUE_UNKNOWN == <<"B", "i", "l", "i", "n", "m", "i", "y", "o", "r">>

\* r'Sayı\s*:\s*(\d+)' matched at offset k: the offsets between which group(1)
\* lies, << >> without a match
IssueAt(s, k) ==
  IF ~ (k + Len(ISSUE_WORD) <= Len(s)
        /\ \A j \in 1..Len(ISSUE_WORD) : s[k + j] = ISSUE_WORD[j])
  THEN << >>
  ELSE LET a == k + Len(ISSUE_WORD) + SpaceRun(s, k + Len(ISSUE_WORD))
       IN IF ~ (a < Len(s) /\ s[a + 1] = ":") THEN << >>
          ELSE LET b == a + 1 + SpaceRun(s, a + 1)
               IN IF DigitRun(s, b) >= 1 THEN << b, b + DigitRun(s, b) >> ELSE << >>

\* lines 184, 193-195
extract_issue(text) ==
  LET ks == { k \in 0..Len(text) : IssueAt(text, k) # << >> }
  IN IF ks = {} THEN ISSUE_UNKNOWN
     ELSE LET k == CHOOSE x \in ks : \A y \in ks : x <= y
          IN SubSeq(text, IssueAt(text, k)[1] + 1, IssueAt(text, k)[2])

\* parse_html line 178: BeautifulSoup(html, 'html.parser') raises on this markup
rejected_markup(body) == \E k \in 1..Len(body.nodes) : body.nodes[k].name = "<!["

\* a parse_html that stamps every bulletin with the current date
BeginParse_DateAlwaysNow(body) ==
  /\ parse_error' = rejected_markup(body)
  /\ all_elements' = IF rejected_markup(body) THEN << >> ELSE body.nodes
  /\ elem_i' = 1
  /\ items' = << >>
  /\ date_str' = NowText(now)
  /\ issue_number' = extract_issue(get_text(body))
  /\ UNCHANGED gazette_data

\* parse_html lines 178-205: the state before the first loop iteration, or the
\* exception of line 178 in flight
BeginParse(body) ==
  /\ parse_error' = rejected_markup(body)
  /\ all_elements' = IF rejected_markup(body) THEN << >> ELSE body.nodes
  /\ elem_i' = 1
  /\ items' = << >>
  /\ date_str' = extract_date(get_text(body), now)
  /\ issue_number' = extract_issue(get_text(body))
  /\ UNCHANGED gazette_data

\* ---- scrape lines 281-284 with fetch_direct ----
FetchDirect ==
  /\ pc = "fetch_direct"
  /\ \E r \in Responses :
       LET c == fetch_direct(r) IN
         /\ attempts' = Append(attempts, [ep |-> 0, response |-> r, returned |-> c])
         /\ content' = c
         /\ IF not_content(c)
            THEN pc' = "fetch_proxy" /\ UNCHANGED parseVars
            ELSE pc' = "parse" /\ BeginParse(c[1])
  /\ UNCHANGED << inputVars, reparseVars, normVars, delays, proxy_i, scrape_error, filterVars, sendVars, outcomeVars >>

\* a relay loop that tries a failed relay a second time before moving on
FetchProxy_RetryOnce ==
  /\ pc = "fetch_proxy"
  /\ proxy_i <= NumProxies
  /\ \E r \in Responses :
       LET c == proxy_attempt(r) IN
         /\ attempts' = Append(attempts, [ep |-> proxy_i, response |-> r, returned |-> c])
         /\ IF c # << >>
            THEN /\ content' = c
                 /\ pc' = "parse" /\ BeginParse(c[1])
                 /\ UNCHANGED << delays, proxy_i >>
            ELSE /\ \E d \in SLEEP_MIN..SLEEP_MAX : delays' = Append(delays, d)
                 /\ proxy_i' = IF \E k \in 1..Len(attempts) : attempts[k].ep = proxy_i
                                THEN proxy_i + 1 ELSE proxy_i
                 /\ UNCHANGED << pc, content, parseVars >>
  /\ UNCHANGED << inputVars, reparseVars, normVars, scrape_error, filterVars, sendVars, outcomeVars >>

\* ---- one iteration of the loop of fetch_via_proxy ----
FetchProxy ==
  /\ pc = "fetch_proxy"
  /\ proxy_i <= NumProxies
  /\ \E r \in Responses :
       LET c == proxy_attempt(r) IN
         /\ attempts' = Append(attempts, [ep |-> proxy_i, response |-> r, returned |-> c])
         /\ IF c # << >>
            THEN /\ content' = c
                 /\ pc' = "parse" /\ BeginParse(c[1])
                 /\ UNCHANGED << delays, proxy_i >>
            ELSE /\ \E d \in SLEEP_MIN..SLEEP_MAX : delays' = Append(delays, d)
                 /\ proxy_i' = proxy_i + 1
                 /\ UNCHANGED << pc, content, parseVars >>
  /\ UNCHANGED << inputVars, reparseVars, normVars, scrape_error, filterVars, sendVars, outcomeVars >>

\* ---- fetch_via_proxy returns None; scrape lines 288-289 raise; run_bot
\* lines 61-63 catch and return False ----
ScrapeRaise ==
  /\ pc = "fetch_proxy"
  /\ proxy_i > NumProxies
  /\ content' = << >>
  /\ scrape_error' = TRUE
  /\ Return("False")
  /\ UNCHANGED << inputVars, reparseVars, normVars, attempts, delays, proxy_i, parseVars, filterVars, sendVars >>

\* ---- one iteration of the loop of parse_html ----
ParseStep ==
  /\ pc = "parse"
  /\ ~ parse_error
  /\ elem_i <= Len(all_elements)
  /\ items' = parse_element(items, all_elements[elem_i])
  /\ elem_i' = elem_i + 1
  /\ UNCHANGED << pc, inputVars, reparseVars, normVars, fetchVars, all_elements,
                  gazette_data, parse_error, date_str, issue_number,
                  filterVars, sendVars, outcomeVars >>

\* ---- parse_html lines 244-249 ----
ParseReturn ==
  /\ pc = "parse"
  /\ ~ parse_error
  /\ elem_i > Len(all_elements)
  /\ gazette_data' = << [date |-> date_str, issue_number |-> issue_number,
                        items |-> items, url |-> BASE_URL] >>
  /\ pc' = "parsed"
  /\ UNCHANGED << inputVars, reparseVars, normVars, fetchVars, all_elements, elem_i,
                  items, parse_error, date_str, issue_number,
                  filterVars, sendVars, outcomeVars >>

\* a run_bot that takes a parse failure for a bulletin without items
ParseRaise_AsEmptyBulletin ==
  /\ pc = "parse"
  /\ parse_error
  /\ Return("True")
  /\ UNCHANGED << inputVars, reparseVars, normVars, fetchVars, parseVars, filterVars, sendVars >>

\* ---- the exception of parse_html leaves scrape (line 291) and is caught by
\* run_bot lines 61-63, which return False ----
ParseRaise ==
  /\ pc = "parse"
  /\ parse_error
  /\ Return("False")
  /\ UNCHANGED << inputVars, reparseVars, normVars, fetchVars, parseVars, filterVars, sendVars >>

\* filter_items lines 128-130: the state before the first loop iteration
BeginFilter(c, its) ==
  /\ cfg' = c
  /\ filter_input' = its
  /\ item_i' = 1
  /\ kept' = << >>
  /\ filtered' = << >>
  /\ filter_reasons' = EmptyReasons
  /\ UNCHANGED filter_result

\* ---- run_bot lines 65-78 ----
RunBotAfterScrape ==
  /\ pc = "parsed"
  /\ IF gazette_data[1].items = << >>
     THEN Return("True") /\ UNCHANGED filterVars
     ELSE /\ pc' = "filter" /\ BeginFilter(DefaultConfig, gazette_data[1].items)
          /\ UNCHANGED outcomeVars
  /\ UNCHANGED << inputVars, reparseVars, normVars, fetchVars, parseVars, sendVars >>

\* a loop that puts an excluded item in front of the excluded list
FilterStep_Prepend ==
  /\ pc = "filter"
  /\ item_i <= Len(filter_input)
  /\ LET item == filter_input[item_i]
         sf   == should_filter(cfg, item)
     IN IF sf[1]
        THEN /\ filtered' = << item >> \o filtered
             /\ filter_reasons' = count_reason(filter_reasons, sf[2])
             /\ UNCHANGED kept
        ELSE /\ kept' = Append(kept, item)
             /\ UNCHANGED << filtered, filter_reasons >>
  /\ item_i' = item_i + 1
  /\ UNCHANGED << pc, inputVars, reparseVars, normVars, fetchVars, parseVars, cfg, filter_input, filter_result,
                  sendVars, outcomeVars >>

\* ---- one iteration of the loop of filter_items ----
FilterStep ==
  /\ pc = "filter"
  /\ item_i <= Len(filter_input)
  /\ LET item == filter_input[item_i]
         sf   == should_filter(cfg, item)
     IN IF sf[1]
        THEN /\ filtered' = Append(filtered, item)
             /\ filter_reasons' = count_reason(filter_reasons, sf[2])
             /\ UNCHANGED kept
        ELSE /\ kept' = Append(kept, item)
             /\ UNCHANGED << filtered, filter_reasons >>
  /\ item_i' = item_i + 1
  /\ UNCHANGED << pc, inputVars, reparseVars, normVars, fetchVars, parseVars, cfg, filter_input, filter_result,
                  sendVars, outcomeVars >>

\* ---- filter_items lines 144-148 ----
FilterReturn ==
  /\ pc = "filter"
  /\ item_i > Len(filter_input)
  /\ filter_result' = << [kept_items |-> kept, filtered_items |-> filtered,
                          filter_summary |-> filter_reasons] >>
  /\ pc' = "filtered"
  /\ UNCHANGED << inputVars, reparseVars, normVars, fetchVars, parseVars, cfg, filter_input, item_i, kept,
                  filtered, filter_reasons, sendVars, outcomeVars >>

\* a run_bot that builds the sender even when nothing was kept
RunBotAfterFilter_NoEmptyCheck ==
  /\ pc = "filtered"
  /\ IF dry_run THEN Return("True")
     ELSE pc' = "send" /\ UNCHANGED outcomeVars
  /\ UNCHANGED << inputVars, reparseVars, normVars, fetchVars, parseVars, filterVars, sendVars >>

\* a run_bot that delivers in dry-run mode too
RunBotAfterFilter_IgnoreDryRun ==
  /\ pc = "filtered"
  /\ IF filter_result[1].kept_items = << >> THEN Return("True")
     ELSE pc' = "send" /\ UNCHANGED outcomeVars
  /\ UNCHANGED << inputVars, reparseVars, normVars, fetchVars, parseVars, filterVars, sendVars >>

\* ---- run_bot lines 88-115 up to the construction of the sender ----
RunBotAfterFilter ==
  /\ pc = "filtered"
  /\ IF filter_result[1].kept_items = << >> THEN Return("True")
     ELSE IF dry_run THEN Return("True")
     ELSE pc' = "send" /\ UNCHANGED outcomeVars
  /\ UNCHANGED << inputVars, reparseVars, normVars, fetchVars, parseVars, filterVars, sendVars >>

\* EmailSender.send after the construction succeeded; status is what SendGrid
\* answers: "accepted" (200, 201, 202), "rejected" (another status), "raised"
email_send(kept_items, status) ==
  IF kept_items = << >> THEN FALSE ELSE status = "accepted"

\* ---- run_bot lines 116-131; api_key: SENDGRID_API_KEY is set, without it
\* the constructor of EmailSender raises ----
SendEmail ==
  /\ pc = "send"
  /\ senders' = senders + 1
  /\ \E api_key \in BOOLEAN :
       IF ~ api_key
       THEN /\ Return("False")
            /\ UNCHANGED << send_calls, api_sends >>
       ELSE \E status \in {"accepted", "rejected", "raised"} :
              /\ send_calls' = send_calls + 1
              /\ api_sends' = IF filter_result[1].kept_items = << >>
                              THEN api_sends ELSE api_sends + 1
              /\ Return(IF email_send(filter_result[1].kept_items, status)
                        THEN "True" ELSE "False")
  /\ UNCHANGED << inputVars, reparseVars, normVars, fetchVars, parseVars, filterVars >>

\* ---- main lines 173-179 ----
MainExit ==
  /\ pc = "returned"
  /\ exit_code' = IF result = "True" THEN 0 ELSE 1
  /\ pc' = "exited"
  /\ UNCHANGED << inputVars, reparseVars, normVars, fetchVars, parseVars, filterVars, sendVars, result >>

Next ==
  \/ RunBotStart \/ FetchDirect \/ FetchProxy \/ ScrapeRaise
  \/ ParseStep \/ ParseReturn \/ ParseRaise \/ RunBotAfterScrape
  \/ FilterStep \/ FilterReturn \/ RunBotAfterFilter
  \/ SendEmail \/ MainExit

Spec == Init /\ [][Next]_vars

\* ---- filter_items on its own: any configuration, any item list ----
InitFilter ==
  /\ pc = "filter"
  /\ to_email = "" /\ TO_EMAIL = "" /\ dry_run = TRUE
  /\ FetchIdle /\ ParseIdle /\ SendIdle /\ NoOutcome /\ ReparseIdle /\ NormIdle
  /\ cfg \in Configs
  /\ filter_input \in SeqsUpTo(ItemPool, MaxItems)
  /\ item_i = 1 /\ kept = << >> /\ filtered = << >> /\ filter_reasons = EmptyReasons
  /\ filter_result = << >>

NextFilter == FilterStep \/ FilterReturn

SpecFilter == InitFilter /\ [][NextFilter]_vars

\* ---- filter_items on titles around the central-bank pattern ----
InitBank ==
  /\ pc = "filter"
  /\ to_email = "" /\ TO_EMAIL = "" /\ dry_run = TRUE
  /\ FetchIdle /\ ParseIdle /\ SendIdle /\ NoOutcome /\ ReparseIdle /\ NormIdle
  /\ cfg \in Configs
  /\ filter_input \in SeqsUpTo(BankPool, MaxBankItems)
  /\ item_i = 1 /\ kept = << >> /\ filtered = << >> /\ filter_reasons = EmptyReasons
  /\ filter_result = << >>

SpecBank == InitBank /\ [][NextFilter]_vars

\* ---- parse_html on its own: any element list ----
InitParse ==
  /\ pc = "parse"
  /\ to_email = "" /\ TO_EMAIL = "" /\ dry_run = TRUE
  /\ FetchIdle /\ FilterIdle /\ SendIdle /\ NoOutcome /\ ReparseIdle /\ NormIdle
  /\ all_elements \in SeqsUpTo(NodePool, MaxNodes)
  /\ elem_i = 1 /\ items = << >> /\ gazette_data = << >> /\ parse_error = FALSE
  /\ date_str = extract_date(get_text([text |-> << >>, nodes |-> all_elements]), now)
  /\ issue_number = extract_issue(get_text([text |-> << >>, nodes |-> all_elements]))

NextParse == ParseStep \/ ParseReturn

SpecParse == InitParse /\ [][NextParse]_vars

\* ---- parse_html called twice on the same content while the clock runs ----

\* parse_html(content) is entered
CallParse ==
  /\ pc = "call_parse"
  /\ pc' = "parse"
  /\ BeginParse(content[1])
  /\ UNCHANGED << inputVars, reparseVars, normVars, fetchVars, filterVars, sendVars,
                  outcomeVars >>

\* the first call has returned: keep its GazetteData and call again
Reparse ==
  /\ pc = "parsed"
  /\ first_parse = << >>
  /\ first_parse' = gazette_data
  /\ gazette_data' = << >>
  /\ pc' = "call_parse"
  /\ UNCHANGED << inputVars, now, normVars, fetchVars, all_elements, elem_i, items,
                  parse_error, date_str, issue_number, filterVars, sendVars, outcomeVars >>

\* midnight passes
Tick ==
  /\ now < MaxDay
  /\ now' = now + 1
  /\ UNCHANGED << pc, inputVars, first_parse, normVars, fetchVars, parseVars, filterVars,
                  sendVars, outcomeVars >>

InitReparse ==
  /\ pc = "call_parse"
  /\ to_email = "" /\ TO_EMAIL = "" /\ dry_run = TRUE
  /\ attempts = << >> /\ delays = << >> /\ proxy_i = 1 /\ scrape_error = FALSE
  /\ content \in { << b >> : b \in { x \in Bodies : ~ rejected_markup(x) } }
  /\ ParseIdle /\ FilterIdle /\ SendIdle /\ NoOutcome /\ ReparseIdle /\ NormIdle

NextReparse == CallParse \/ ParseStep \/ ParseReturn \/ Reparse \/ Tick

SpecReparse == InitReparse /\ [][NextReparse]_vars

\* ---- the two normalizers on pairs of texts ----

\* letters of two families, in their cases and with their diacritics
NormAlphabet == {"i", "I", "Idot", "idotless", "s", "Scedil"}

W_Istanbul_dotted == <<"Idot", "s", "t", "a", "n", "b", "u", "l">>
W_istanbul_lower == <<"i", "s", "t", "a", "n", "b", "u", "l">>
W_ISTANBUL_upper == <<"I", "S", "T", "A", "N", "B", "U", "L">>
NormWords == { W_Istanbul_dotted, W_istanbul_lower, W_ISTANBUL_upper }

\* pairs of texts of one length
NormPairs ==
  (UNION { [1..n -> NormAlphabet] \X [1..n -> NormAlphabet] : n \in 0..MaxTextLen })
    \cup (NormWords \X NormWords)

\* the pair a normalizer is applied to next: the last results, the inputs at first
LastPair(out) == IF out = << >> THEN norm_in ELSE out[Len(out)]

\* _normalize_text(text), then _normalize_text of the result
NormalizeScraper ==
  /\ pc = "normalize"
  /\ Len(scraper_out) < 2
  /\ scraper_out' = Append(scraper_out, << normalize_text(LastPair(scraper_out)[1]),
                                          normalize_text(LastPair(scraper_out)[2]) >>)
  /\ UNCHANGED << pc, inputVars, reparseVars, norm_in, filter_out, category_out, fetchVars,
                  parseVars, filterVars, sendVars, outcomeVars >>

\* _normalize_turkish(text), then _normalize_turkish of the result
NormalizeFilter ==
  /\ pc = "normalize"
  /\ Len(scraper_out) = 2 /\ Len(filter_out) < 2
  /\ filter_out' = Append(filter_out, << normalize_turkish(LastPair(filter_out)[1]),
                                        normalize_turkish(LastPair(filter_out)[2]) >>)
  /\ UNCHANGED << pc, inputVars, reparseVars, norm_in, scraper_out, category_out, fetchVars,
                  parseVars, filterVars, sendVars, outcomeVars >>

\* should_filter lines 81-83: _normalize_turkish(text.upper())
NormalizeCategory ==
  /\ pc = "normalize"
  /\ Len(filter_out) = 2 /\ category_out = << >>
  /\ category_out' = << << normalize_turkish(Upper(norm_in[1])),
                          normalize_turkish(Upper(norm_in[2])) >> >>
  /\ UNCHANGED << pc, inputVars, reparseVars, norm_in, scraper_out, filter_out, fetchVars,
                  parseVars, filterVars, sendVars, outcomeVars >>

InitNormalize ==
  /\ pc = "normalize"
  /\ to_email = "" /\ TO_EMAIL = "" /\ dry_run = TRUE
  /\ FetchIdle /\ ParseIdle /\ FilterIdle /\ SendIdle /\ NoOutcome /\ ReparseIdle
  /\ norm_in \in NormPairs
  /\ scraper_out = << >> /\ filter_out = << >> /\ category_out = << >>

NextNormalize == NormalizeScraper \/ NormalizeFilter \/ NormalizeCategory

SpecNormalize == InitNormalize /\ [][NextNormalize]_vars

\* ======================= properties =======================

\* An attempt succeeded, in the terms of the specification: a success status
\* and a non-empty body which, for a relay, contains a source keyword.
AttemptSucceeded(a) ==
  /\ a.response.status = "ok"
  /\ ~ IsEmptyBody(a.response.body)
  /\ a.ep >= 1 => has_keyword(fix_encoding(a.response.body))

\* the fetch is over and has produced content
FetchDone == pc \in {"parse", "parsed", "filter", "filtered", "send"} \/ gazette_data # << >>

\* C1: scrape() contacts its endpoints in the fixed order direct, relay 1,
\* relay 2, relay 3; an endpoint is contacted only after every earlier one
\* failed, nothing is contacted after a success, and the content scrape()
\* goes on with is the content of the first endpoint that succeeded, without
\* an exception.
C1_FixedPriorityOrder ==
  /\ \A k \in 1..Len(attempts) :
       /\ attempts[k].ep = k - 1
       /\ \A j \in 1..(k - 1) : ~ AttemptSucceeded(attempts[j])
  /\ \A k \in 1..Len(attempts) :
       AttemptSucceeded(attempts[k]) =>
         /\ k = Len(attempts)
         /\ ~ scrape_error
         /\ pc # "fetch_proxy"
         /\ content = << IF attempts[k].ep = 0 THEN attempts[k].response.body
                         ELSE fix_encoding(attempts[k].response.body) >>

\* C1 witness: the direct connection and relay 1 failed, relay 2 succeeded
\* and its content is being parsed
C1_Witness ==
  /\ Len(attempts) = 3
  /\ AttemptSucceeded(attempts[3])
  /\ pc = "parse"
  /\ content = << attempts[3].response.body >>
  /\ all_elements = attempts[3].response.body.nodes

\* C2: the fetch fails with an error if and only if every endpoint has been
\* attempted and has failed; then no GazetteData exists, no sender is
\* constructed, nothing is sent, run_bot returns False and the exit code is 1.
C2_FetchErrorIffExhausted ==
  LET exhausted == /\ Len(attempts) = 4
                   /\ \A k \in 1..Len(attempts) :
                        attempts[k].ep = k - 1 /\ ~ AttemptSucceeded(attempts[k])
  IN /\ scrape_error => exhausted
     /\ (exhausted /\ pc \in {"returned", "exited"}) => scrape_error
     /\ scrape_error =>
          /\ gazette_data = << >> /\ filter_result = << >>
          /\ senders = 0 /\ send_calls = 0 /\ api_sends = 0
          /\ result = "False"
          /\ pc = "exited" => exit_code = 1

\* C2 witness: all four endpoints failed and the process has exited with 1
C2_Witness ==
  /\ scrape_error
  /\ pc = "exited"
  /\ exit_code = 1
  /\ Len(attempts) = 4

\* the subsequence of s at the positions in S, in increasing order
RECURSIVE Pick(_, _, _)
Pick(s, S, k) ==
  IF k > Len(s) THEN << >>
  ELSE (IF k \in S THEN << s[k] >> ELSE << >>) \o Pick(s, S, k + 1)

\* C3: filter_items returns kept and excluded lists whose lengths add up to
\* the length of the input; every input position lands in exactly one of the
\* two lists exactly once, and each list keeps the input's relative order.
C3_PartitionComplete ==
  filter_result # << >> =>
    LET r == filter_result[1]
        n == Len(filter_input)
    IN /\ Len(r.kept_items) + Len(r.filtered_items) = n
       /\ \E S \in SUBSET (1..n) :
            /\ r.kept_items = Pick(filter_input, S, 1)
            /\ r.filtered_items = Pick(filter_input, (1..n) \ S, 1)

\* C3 witness: filter_items returned one kept item and two different
\* excluded ones
C3_Witness ==
  /\ filter_result # << >>
  /\ Len(filter_result[1].kept_items) = 1
  /\ Len(filter_result[1].filtered_items) = 2
  /\ filter_result[1].filtered_items[1] # filter_result[1].filtered_items[2]

\* The rule families in the order of the specification, stated on their own:
\* 1 announcement, 2 academic, 3 central bank, 4 appointment.
RuleEnabled(c, k) ==
  IF k = 1 THEN c.filter_announcements
  ELSE IF k = 2 THEN c.filter_universities
  ELSE IF k = 3 THEN c.filter_central_bank
  ELSE c.filter_appointments

RuleMatches(k, item) ==
  IF k = 1 THEN category_matches(item.category)
  ELSE IF k = 2 THEN university_matches(item.title)
  ELSE IF k = 3 THEN central_bank_matches(item.title)
  ELSE appointment_matches(item.title)

RuleReason(k, item) ==
  IF k = 1 THEN REASON_ANNOUNCEMENT \o item.category
  ELSE IF k = 2 THEN REASON_UNIVERSITY
  ELSE IF k = 3 THEN REASON_CENTRAL_BANK
  ELSE REASON_APPOINTMENT

\* the enabled rules that match the item
Firing(c, item) == { k \in 1..4 : RuleEnabled(c, k) /\ RuleMatches(k, item) }

\* the first of them
FirstRule(c, item) == CHOOSE k \in Firing(c, item) : \A j \in Firing(c, item) : k <= j

\* the count of a reason, 0 when the reason is no key
CountOf(reasons, reason) == IF reason \in DOMAIN reasons THEN reasons[reason] ELSE 0

\* C4: first rule wins.  Each iteration of filter_items that meets an item
\* matched by some enabled rule excludes it and adds one to the count of the
\* reason of the first such rule in the order announcement, academic, central
\* bank, appointment, and changes no other count; so an item that matches
\* both the announcement and the academic rule is counted under the
\* announcement reason only.
C4_FirstRuleWins ==
  [][(pc = "filter" /\ item_i <= Len(filter_input) /\ item_i' = item_i + 1
      /\ Firing(cfg, filter_input[item_i]) # {}) =>
       LET item   == filter_input[item_i]
           reason == RuleReason(FirstRule(cfg, item), item)
       IN /\ filtered' = Append(filtered, item)
          /\ kept' = kept
          /\ DOMAIN filter_reasons' = DOMAIN filter_reasons \cup {reason}
          /\ \A r \in DOMAIN filter_reasons' :
               filter_reasons'[r] = CountOf(filter_reasons, r) + (IF r = reason THEN 1 ELSE 0)
    ]_vars

\* C4 witness: with the default configuration an item that matches both the
\* announcement rule and the academic rule has been excluded, and only the
\* announcement reason was counted
C4_Witness ==
  /\ cfg = DefaultConfig
  /\ filter_input = << I_UnivIhale >>
  /\ category_matches(I_UnivIhale.category) /\ university_matches(I_UnivIhale.title)
  /\ filtered = << I_UnivIhale >>
  /\ DOMAIN filter_reasons = { REASON_ANNOUNCEMENT \o I_UnivIhale.category }
  /\ filter_reasons[REASON_ANNOUNCEMENT \o I_UnivIhale.category] = 1

\* the sum of the counts of the reasons in D
RECURSIVE SumCounts(_, _)
SumCounts(reasons, D) ==
  IF D = {} THEN 0
  ELSE LET r == CHOOSE x \in D : TRUE IN reasons[r] + SumCounts(reasons, D \ {r})

\* C7: after filter_items every excluded item has added exactly one to the
\* count of exactly one reason, the reason of the first enabled rule that
\* matches it: each count is the number of excluded items with that reason,
\* the counts sum to the number of excluded items, and no kept item is matched
\* by an enabled rule.
C7_ReasonCounts ==
  filter_result # << >> =>
    LET r  == filter_result[1]
        ex == r.filtered_items
        reasonOf(k) == RuleReason(FirstRule(cfg, ex[k]), ex[k])
    IN /\ \A k \in 1..Len(ex) : Firing(cfg, ex[k]) # {}
       /\ DOMAIN r.filter_summary = { reasonOf(k) : k \in 1..Len(ex) }
       /\ \A x \in DOMAIN r.filter_summary :
            r.filter_summary[x] = Cardinality({ k \in 1..Len(ex) : reasonOf(k) = x })
       /\ SumCounts(r.filter_summary, DOMAIN r.filter_summary) = Len(ex)
       /\ \A k \in 1..Len(r.kept_items) : Firing(cfg, r.kept_items[k]) = {}

\* C7 witness: two items were excluded for the same reason, one for another,
\* and the counts are 2 and 1
C7_Witness ==
  /\ filter_result # << >>
  /\ Len(filter_result[1].filtered_items) = 3
  /\ \E x, y \in DOMAIN filter_result[1].filter_summary :
       /\ x # y
       /\ filter_result[1].filter_summary[x] = 2
       /\ filter_result[1].filter_summary[y] = 1

\* the notice patterns applied to a title: the "parallel content-pattern set"
\* of the specification's announcement rule
notice_title_matches(title) ==
  \E k \in 1..Len(FILTERED_CATEGORIES) :
    Contains(filtered_normalized[k], normalize_turkish(Upper(title)))

\* the item of the specification's scenario is a notice by its title
NoticeItem(item) ==
  \/ category_matches(item.category)
  \/ notice_title_matches(item.title)

\* C8: with the announcement rule enabled, an item is excluded under the
\* announcement reason whenever its category matches the notice-section
\* patterns or its title matches the notice patterns; so the item with
\* category "ILAN BOLUMU" and title "a - Yargi Ilanlari" is excluded.
C8_AnnouncementRule ==
  (filter_result # << >> /\ cfg.filter_announcements) =>
    \A k \in 1..Len(filter_input) :
      NoticeItem(filter_input[k]) =>
        /\ \E j \in 1..Len(filter_result[1].filtered_items) :
             filter_result[1].filtered_items[j] = filter_input[k]
        /\ (REASON_ANNOUNCEMENT \o filter_input[k].category)
             \in DOMAIN filter_result[1].filter_summary

\* the element is a link that parse_html turns into an item unless its URL
\* was emitted before
Qualifies(elem) ==
  /\ elem.name = "a"
  /\ ~ should_skip_title(Strip(elem.text))
  /\ is_document_href(elem.href)

\* the first element that qualifies and resolves to the URL
FirstWithUrl(elems, url) ==
  CHOOSE n \in 1..Len(elems) :
    /\ Qualifies(elems[n]) /\ resolve_href(elems[n].href) = url
    /\ \A m \in 1..(n - 1) : ~ (Qualifies(elems[m]) /\ resolve_href(elems[m].href) = url)

\* the element is a heading-like node with the text of a known section header
IsHeader(elem) == elem.name \in {"b", "strong", "u"} /\ is_category_header(elem.text)

\* the category cursor of the specification at element n: the raw text of the
\* last recognized header before n, "Genel" when there is none
CursorAt(elems, n) ==
  LET hs == { m \in 1..(n - 1) : IsHeader(elems[m]) } IN
    IF hs = {} THEN CAT_GENEL
    ELSE Strip(elems[CHOOSE m \in hs : \A j \in hs : j <= m].text)

\* C5: category-cursor propagation.  Every item parse_html emits carries the
\* text of the most recent recognized section header before its link in
\* document order, or the default category when there is none.
C5_CategoryCursor ==
  gazette_data # << >> =>
    \A k \in 1..Len(gazette_data[1].items) :
      LET it == gazette_data[1].items[k] IN
        it.category = CursorAt(all_elements, FirstWithUrl(all_elements, it.link))

\* C6: within one parse no two emitted items have the same link; of the
\* links seen so far that resolve to one absolute URL exactly one item was
\* emitted, the one of the first such link in document order, however the
\* raw href values differ.
C6_DedupByResolvedUrl ==
  /\ \A i, j \in 1..Len(items) : i # j => items[i].link # items[j].link
  /\ \A n \in 1..(elem_i - 1) :
       (n <= Len(all_elements) /\ Qualifies(all_elements[n])) =>
         LET url   == resolve_href(all_elements[n].href)
             first == FirstWithUrl(all_elements, url)
         IN /\ Cardinality({ k \in 1..Len(items) : items[k].link = url }) = 1
            /\ \A k \in 1..Len(items) :
                 items[k].link = url => items[k].title = Strip(all_elements[first].text)

\* C6 witness: a relative and a root-relative href of the same document were
\* both visited and one item, the first link's, was emitted
C6_Witness ==
  /\ all_elements = << N_Ozel, N_OzelRoot >>
  /\ N_Ozel.href # N_OzelRoot.href
  /\ elem_i = 3
  /\ Len(items) = 1
  /\ items[1].title = N_Ozel.text
  /\ items[1].link = BASE_URL \o N_OzelRoot.href

\* C9 as stated: an endpoint whose attempt failed is attempted again before
\* the fetch moves on to the next endpoint, and the delays between successive
\* attempts grow.
C9_RetryWithBackoff ==
  /\ \A k \in 1..(Len(attempts) - 1) :
       (~ AttemptSucceeded(attempts[k]) /\ attempts[k + 1].ep # attempts[k].ep) =>
         Cardinality({ j \in 1..Len(attempts) : attempts[j].ep = attempts[k].ep }) >= 2
  /\ \A i \in 1..(Len(delays) - 1) : delays[i] < delays[i + 1]

\* C9 amended: no endpoint is attempted twice.  After a failed attempt the
\* next attempt, if any, goes to the next endpoint; the fetch sleeps once
\* after every failed relay attempt and never after the direct attempt, and
\* every sleep lasts between 1 and 2 seconds whatever the attempt number.
C9_SingleAttemptFixedDelay ==
  /\ \A i, j \in 1..Len(attempts) : i # j => attempts[i].ep # attempts[j].ep
  /\ \A k \in 1..(Len(attempts) - 1) : attempts[k + 1].ep = attempts[k].ep + 1
  /\ Len(delays) = Cardinality({ k \in 1..Len(attempts) :
                                   attempts[k].ep >= 1 /\ ~ AttemptSucceeded(attempts[k]) })
  /\ \A i \in 1..Len(delays) : 1 <= delays[i] /\ delays[i] <= 2

\* C9 witness: two relays failed one after the other, the second sleep was
\* shorter than the first, and the third relay was contacted next
C9_Witness ==
  /\ Len(attempts) = 4
  /\ ~ AttemptSucceeded(attempts[2]) /\ ~ AttemptSucceeded(attempts[3])
  /\ attempts[4].ep = 3
  /\ delays[1] = 2 /\ delays[2] = 1

\* C10: the content scrape() hands to the parser is never empty, and content
\* that came from a relay contains a source keyword; a relay response with a
\* success status whose body has no keyword (or is empty) is a failed
\* candidate: nothing is returned for it and the next relay is the next one
\* tried.
C10_ContentSanity ==
  /\ FetchDone => (content # << >> /\ ~ IsEmptyBody(content[1]))
  /\ (FetchDone /\ attempts[Len(attempts)].ep >= 1) => has_keyword(content[1])
  /\ \A k \in 1..Len(attempts) :
       LET a == attempts[k] IN
         (a.ep >= 1 /\ a.response.status = "ok" /\ ~ has_keyword(fix_encoding(a.response.body))) =>
           /\ a.returned = << >>
           /\ k < Len(attempts) => attempts[k + 1].ep = a.ep + 1
           /\ k = Len(attempts) => (proxy_i = a.ep + 1 /\ ~ FetchDone)

\* C10 witness: relay 1 answered with a success status and an error page,
\* relay 2 with a gazette page, which is being parsed
C10_Witness ==
  /\ Len(attempts) = 3
  /\ attempts[2].response = [status |-> "ok", body |-> B_ErrorPage]
  /\ attempts[2].returned = << >>
  /\ attempts[3].response.status = "ok"
  /\ pc = "parse"
  /\ has_keyword(content[1])

\* ---- C11: a parse failure ----

\* C11 (as claimed): when the content cannot be parsed at all, the run goes on as
\* if an empty bulletin had been produced: no delivery is attempted and the run
\* ends with the success outcome (run_bot True, exit code 0).
C11_ParseErrorIsNoOp ==
  parse_error =>
    /\ senders = 0 /\ send_calls = 0 /\ api_sends = 0
    /\ pc \in {"returned", "exited"} => result = "True"
    /\ pc = "exited" => exit_code = 0

\* C11 (amended): when the parser raises, the exception leaves scrape and run_bot
\* handles it like a failed fetch: no bulletin is produced, nothing is filtered,
\* no delivery is attempted and the run ends as a failure (run_bot False, exit
\* code 1).
C11_ParseErrorFailsRun ==
  parse_error =>
    /\ pc \in {"parse", "returned", "exited"}
    /\ gazette_data = << >> /\ filter_result = << >>
    /\ senders = 0 /\ send_calls = 0 /\ api_sends = 0
    /\ pc \in {"returned", "exited"} => result = "False"
    /\ pc = "exited" => exit_code = 1

\* a run whose fetched page the parser rejected has exited
C11_Witness ==
  /\ parse_error /\ pc = "exited" /\ exit_code = 1
  /\ content # << >> /\ rejected_markup(content[1])

\* ---- C12: nothing kept ----

\* C12: when filter_items leaves the kept list empty, delivery is skipped
\* entirely: no EmailSender is built, send is never called, no request goes to
\* SendGrid, and the run is a success (run_bot True, exit code 0).
C12_EmptyKeptSkipsDelivery ==
  (filter_result # << >> /\ filter_result[1].kept_items = << >>) =>
    /\ pc \in {"filtered", "returned", "exited"}
    /\ senders = 0 /\ send_calls = 0 /\ api_sends = 0
    /\ pc \in {"returned", "exited"} => result = "True"
    /\ pc = "exited" => exit_code = 0

\* a run with a recipient and without dry-run whose items were all excluded
\* has exited
C12_Witness ==
  /\ filter_result # << >>
  /\ filter_result[1].kept_items = << >> /\ filter_result[1].filtered_items # << >>
  /\ ~ dry_run /\ recipient # ""
  /\ pc = "exited" /\ exit_code = 0

\* ---- C13: dry-run ----

\* the positions of a bulletin's items that some rule of run_bot's
\* configuration (announcement, academic, central bank; appointments off) excludes
ExcludedAt(its) == { k \in 1..Len(its) : Firing(DefaultConfig, its[k]) # {} }

\* C13: in dry-run mode no EmailSender is built and nothing is sent, in any
\* state of any run; and the partition of a bulletin with items is the same
\* function of the bulletin's items with and without dry-run.
C13_DryRunNoDelivery ==
  /\ dry_run => (senders = 0 /\ send_calls = 0 /\ api_sends = 0 /\ pc # "send")
  /\ (/\ gazette_data # << >>
      /\ pc \in {"filtered", "send", "returned", "exited"}
      /\ gazette_data[1].items # << >>) =>
       LET its == gazette_data[1].items IN
         /\ filter_result # << >>
         /\ filter_result[1].kept_items = Pick(its, (1..Len(its)) \ ExcludedAt(its), 1)
         /\ filter_result[1].filtered_items = Pick(its, ExcludedAt(its), 1)

\* a dry run that kept some items and excluded others has exited
C13_Witness ==
  /\ dry_run /\ pc = "exited" /\ exit_code = 0
  /\ filter_result # << >>
  /\ filter_result[1].kept_items # << >> /\ filter_result[1].filtered_items # << >>

\* ---- C18: no recipient ----

\* neither the to_email argument nor the TO_EMAIL setting is present
NoRecipient == to_email = "" /\ TO_EMAIL = ""

\* C18: without a recipient and without dry-run, run_bot fails before any
\* retrieval: no endpoint is contacted, nothing is parsed or filtered, no
\* delivery is attempted, run_bot returns False and the process exits with 1.
\* In dry-run mode a missing recipient does not stop the run: it goes on to
\* the direct fetch.
C18_NoRecipientFailsEarly ==
  /\ (NoRecipient /\ ~ dry_run) =>
       /\ pc \in {"start", "returned", "exited"}
       /\ attempts = << >> /\ delays = << >> /\ content = << >>
       /\ all_elements = << >> /\ ~ parse_error /\ gazette_data = << >>
       /\ filter_input = << >> /\ filter_result = << >>
       /\ senders = 0 /\ send_calls = 0 /\ api_sends = 0
       /\ pc \in {"returned", "exited"} => result = "False"
       /\ pc = "exited" => exit_code = 1
  /\ (NoRecipient /\ dry_run /\ pc # "start") =>
       (pc = "fetch_direct" \/ attempts # << >>)

\* a run without recipient and without dry-run has exited
C18_Witness ==
  /\ NoRecipient /\ ~ dry_run
  /\ pc = "exited" /\ exit_code = 1 /\ result = "False" /\ attempts = << >>

\* ---- C14: two parses of the same content ----

\* C14 (as claimed): two parse_html calls on identical content, at any two
\* times, give the same items in the same order and the same date and issue
\* number, also when the content has no date or issue number.
C14_ParseDeterministic ==
  (first_parse # << >> /\ gazette_data # << >>) => gazette_data = first_parse

\* C14 (amended): two parse_html calls on identical content give the same
\* items in the same order and the same issue number ("Bilinmiyor" when the
\* content has none).  The date is the same when the content contains a date;
\* when it contains none, each call reports the local date of its own clock
\* reading, so the two dates are the days of the two calls, the first not
\* after the second.
C14_DeterministicButForClock ==
  (first_parse # << >> /\ gazette_data # << >>) =>
    LET a == first_parse[1]
        b == gazette_data[1]
    IN /\ a.items = b.items
       /\ a.issue_number = b.issue_number
       /\ a.url = b.url
       /\ date_search(get_text(content[1])) # << >> => a.date = b.date
       /\ date_search(get_text(content[1])) = << >> =>
            \E d1 \in 1..now : \E d2 \in d1..now :
              a.date = NowText(d1) /\ b.date = NowText(d2)

\* content without a date was parsed on two different days, giving the same
\* items but two dates
C14_Witness ==
  /\ first_parse # << >> /\ gazette_data # << >>
  /\ gazette_data[1].items # << >>
  /\ first_parse[1].date # gazette_data[1].date

\* ---- C16: document extensions ----

\* the text s ends in suf
EndsWith(s, suf) ==
  Len(suf) <= Len(s) /\ SubSeq(s, Len(s) - Len(suf) + 1, Len(s)) = suf

DOT_PDF == <<".", "p", "d", "f">>
DOT_HTM == <<".", "h", "t", "m">>
DOT_HTML == <<".", "h", "t", "m", "l">>

\* C16 (as claimed): every emitted item's link ends in .pdf, .htm or .html, and
\* its item_type is pdf exactly when the link ends in .pdf.
C16_ExtensionAtEnd ==
  \A k \in 1..Len(items) :
    LET l == Lower(items[k].link) IN
      /\ EndsWith(l, DOT_PDF) \/ EndsWith(l, DOT_HTM) \/ EndsWith(l, DOT_HTML)
      /\ items[k].item_type = "pdf" <=> EndsWith(l, DOT_PDF)

\* C16 (amended): every emitted item's link contains .pdf or .htm somewhere,
\* in any letter case, and its item_type is pdf exactly when the link contains
\* .pdf, htm otherwise.
C16_ExtensionAnywhere ==
  \A k \in 1..Len(items) :
    LET l == Lower(items[k].link) IN
      /\ Contains(DOT_PDF, l) \/ Contains(DOT_HTM, l)
      /\ items[k].item_type \in {"pdf", "htm"}
      /\ items[k].item_type = "pdf" <=> Contains(DOT_PDF, l)

\* parse_html returned an item of type pdf whose link ends in .htm and one
\* whose link ends in no extension
C16_Witness ==
  /\ gazette_data # << >>
  /\ \E k \in 1..Len(gazette_data[1].items) :
       /\ gazette_data[1].items[k].item_type = "pdf"
       /\ EndsWith(Lower(gazette_data[1].items[k].link), DOT_HTM)
  /\ \E k \in 1..Len(gazette_data[1].items) :
       LET l == Lower(gazette_data[1].items[k].link) IN
         ~ (EndsWith(l, DOT_PDF) \/ EndsWith(l, DOT_HTM) \/ EndsWith(l, DOT_HTML))

\* ---- C15: the central-bank rule ----

BANK_WORD == <<"m", "e", "r", "k", "e", "z", " ", "b", "a", "n", "k", "a", "s", "idotless">>
RATE_WORDS ==
  << <<"d", "ouml", "v", "i", "z">>, <<"k", "u", "r">>,
     <<"e", "f", "e", "k", "t", "i", "f">>, <<"p", "a", "r", "i", "t", "e">> >>
BORROWING_WORD == <<"i", "ccedil", " ", "b", "o", "r", "ccedil", "l", "a", "n", "m", "a">>

\* the title contains the word, in any letter case
Mentions(w, title) == \E k \in 0..Len(title) : MatchAt(w, title, k)

\* the central-bank rule is on and no earlier enabled rule (announcement,
\* academic) matches the item
BankRuleDecides(c, item) ==
  /\ c.filter_central_bank
  /\ \A r \in 1..2 : ~ (RuleEnabled(c, r) /\ RuleMatches(r, item))

\* the item is among the excluded ones
Excluded(item) == \E j \in 1..Len(filtered) : filtered[j] = item

\* C15 (as claimed): with the central-bank rule on and no earlier rule
\* matching, an item whose title contains the central bank's name, or a rate
\* word, or the domestic-borrowing word, is excluded under the central-bank
\* reason, whether or not the words occur together.
C15_BankOrRate ==
  \A k \in 1..(item_i - 1) :
    LET it == filter_input[k] IN
      (/\ BankRuleDecides(cfg, it)
       /\ \/ Mentions(BANK_WORD, it.title)
          \/ \E a \in 1..Len(RATE_WORDS) : Mentions(RATE_WORDS[a], it.title)
          \/ Mentions(BORROWING_WORD, it.title))
      => (Excluded(it) /\ CountOf(filter_reasons, REASON_CENTRAL_BANK) >= 1)

\* the title holds the central bank's name and, at most 30 characters (none of
\* them a line break) after its end, the start of a rate word
BankThenRate(title) ==
  \E i \in 0..Len(title) :
    /\ MatchAt(BANK_WORD, title, i)
    /\ \E g \in 0..30 :
         LET j == i + Len(BANK_WORD) + g IN
           /\ j <= Len(title)
           /\ \A x \in (i + Len(BANK_WORD) + 1)..j : title[x] # "\n"
           /\ \E a \in 1..Len(RATE_WORDS) : MatchAt(RATE_WORDS[a], title, j)

\* C15 (amended): with the central-bank rule on and no earlier rule matching,
\* an item is excluded under the central-bank reason exactly when its title
\* contains the central bank's name followed, within 30 characters, by a rate
\* word (döviz, kur, efektif, parite).  A title with the bank's name alone,
\* with a rate word alone, or with the two further apart is not excluded by
\* this rule.
C15_BankThenRate ==
  LET decided == { k \in 1..(item_i - 1) : BankRuleDecides(cfg, filter_input[k]) }
      hits    == { k \in decided : BankThenRate(filter_input[k].title) }
  IN /\ CountOf(filter_reasons, REASON_CENTRAL_BANK) = Cardinality(hits)
     /\ \A k \in hits : Excluded(filter_input[k])
     /\ \A k \in decided \ hits :
          ~ (cfg.filter_appointments /\ appointment_matches(filter_input[k].title))
            => ~ Excluded(filter_input[k])

\* with the central-bank rule on, filter_items kept a title holding the bank's
\* name alone and a title holding rate words alone
C15_Witness ==
  /\ filter_result # << >> /\ cfg.filter_central_bank
  /\ \E k \in 1..Len(kept) : Mentions(BANK_WORD, kept[k].title) /\ ~ BankThenRate(kept[k].title)
  /\ \E k \in 1..Len(kept) : ~ Mentions(BANK_WORD, kept[k].title)
                             /\ Mentions(RATE_WORDS[2], kept[k].title)

\* ---- C17: the normalizers ----

\* the Turkish letters that are one letter up to case and diacritics, the
\* lower-case forms first
LETTER_FORMS ==
  { << {"i", "idotless", "icirc"}, {"I", "Idot", "Icirc"} >>,
    << {"g", "gbreve"}, {"G", "Gbreve"} >>,
    << {"u", "uuml", "ucirc"}, {"U", "Uuml", "Ucirc"} >>,
    << {"s", "scedil"}, {"S", "Scedil"} >>,
    << {"o", "ouml"}, {"O", "Ouml"} >>,
    << {"c", "ccedil"}, {"C", "Ccedil"} >>,
    << {"a", "acirc"}, {"A", "Acirc"} >> }

\* c and d are the same letter up to case and diacritics
SameLetter(c, d) ==
  \/ c = d
  \/ \E k \in 1..Len(AsciiLower) : {c, d} = {AsciiLower[k], AsciiUpper[k]}
  \/ \E f \in LETTER_FORMS : {c, d} \subseteq f[1] \cup f[2]

\* c and d are the same letter in the same case, up to diacritics
SameLetterAndCase(c, d) ==
  \/ c = d
  \/ \E f \in LETTER_FORMS : {c, d} \subseteq f[1] \/ {c, d} \subseteq f[2]

\* the texts differ only in letter case or diacritics; only in diacritics
DifferOnlyInCaseOrDiacritics(x, y) ==
  Len(x) = Len(y) /\ \A k \in 1..Len(x) : SameLetter(x[k], y[k])

DifferOnlyInDiacritics(x, y) ==
  Len(x) = Len(y) /\ \A k \in 1..Len(x) : SameLetterAndCase(x[k], y[k])

\* out holds a second application and it gave what the first gave
Idempotent(out) == Len(out) = 2 => out[2] = out[1]

\* C17 (as claimed): the scraper's and the filter's normalizer are both
\* idempotent, and both give one text for two texts that differ only in
\* letter case or Turkish diacritics.
C17_NormalizersInsensitive ==
  /\ Idempotent(scraper_out) /\ Idempotent(filter_out)
  /\ DifferOnlyInCaseOrDiacritics(norm_in[1], norm_in[2]) =>
       /\ scraper_out # << >> => scraper_out[1][1] = scraper_out[1][2]
       /\ filter_out # << >> => filter_out[1][1] = filter_out[1][2]

\* C17 (amended): both normalizers are idempotent.  The scraper's
\* _normalize_text gives one text for two texts that differ only in letter
\* case or Turkish diacritics.  The filter's _normalize_turkish gives one text
\* for two texts that differ only in diacritics, and keeps the letter case;
\* it gives one text for texts that differ in case only after the upper()
\* that should_filter applies first.
C17_FilterNormalizerKeepsCase ==
  /\ Idempotent(scraper_out) /\ Idempotent(filter_out)
  /\ DifferOnlyInCaseOrDiacritics(norm_in[1], norm_in[2]) =>
       /\ scraper_out # << >> => scraper_out[1][1] = scraper_out[1][2]
       /\ category_out # << >> => category_out[1][1] = category_out[1][2]
  /\ DifferOnlyInDiacritics(norm_in[1], norm_in[2]) =>
       (filter_out # << >> => filter_out[1][1] = filter_out[1][2])
  /\ filter_out # << >> =>
       \A k \in 1..Len(norm_in[1]) :
         (norm_in[1][k] \in UpperLetters \cup {"Idot"}) = (filter_out[1][1][k] \in UpperLetters)

\* the texts "İstanbul" and "istanbul" went through both normalizers twice: one
\* text from the scraper's, two from the filter's
C17_Witness ==
  /\ norm_in = << W_Istanbul_dotted, W_istanbul_lower >>
  /\ Len(scraper_out) = 2 /\ Len(filter_out) = 2 /\ category_out # << >>
  /\ scraper_out[1][1] = scraper_out[1][2]
  /\ filter_out[1][1] # filter_out[1][2]
====
